---- MODULE Spec2Model ----
(***************************************************************************)
(* Model of the incremental build pipeline of the Jolt bundler:            *)
(*   - JoltBundler (src/core/Bundler.js): build(), the task pipeline       *)
(*     (runPipeline / queueTask), the watch loop (handleChange,            *)
(*     processChanges) and the per-asset-class caches;                     *)
(*   - the module cache of the dependency-graph builder                    *)
(*     (lib/components: needsRebuild, processFile).                        *)
(* The specifications share the variables:                                 *)
(*   Spec         the build pipeline and the watch loop                    *)
(*   SpecModules  the module cache (processFile / needsRebuild)            *)
(*   SpecStages   the asset-class caches of the stages, caching enabled    *)
(*   SpecCacheOff the module cache and the stages with config.cache false  *)
(*   SpecStyles   the style stage of plugins/css-preprocessor.js           *)
(*   SpecAssets   the asset stage run pass after pass                      *)
(*   SpecGraph    Build.build(): buildDependencyGraph and the bundle       *)
(*   SpecBundle   the module registry of the emitted bundle                *)
(*   SpecStop     stop() and the stages handed the abort signal            *)
(*   SpecOptional the optional collaborators of the stages                 *)
(*   SpecImports  resolveImports over unreadable targets                   *)
(*   SpecMarkup   the markup cache in watch mode                           *)
(*   SpecWatcher  the Watcher of the plug-in based bundler                 *)
(*   SpecEntryMap the source map of the entry in the bundle                *)
(*   SpecResolve  resolvePath over the files of a disk                     *)
(*   SpecDebounce the debounce timers of both watchers                     *)
(*   SpecShutdown stop() against the debounce timer                        *)
(*   SpecClassify the watched paths and the stages of a pass               *)
(*   SpecEntries  several entries built over one cache and graph           *)
(*   SpecCycle    resolveImports over @import cycles                       *)
(*   SpecPlugins  cssPlug and htmlPlug build after build                   *)
(***************************************************************************)
EXTENDS Integers, FiniteSets, Sequences, TLC

\* ------------------------------------------------------------------ bounds
\* number of file-system events delivered to handleChange
MaxEvents == 3

\* number of distinct contents a module file can have
MaxContent == 2
\* number of processFile calls in flight at the same time
MaxCalls == 2

\* number of times source files are saved with new content
MaxEdits == 2

\* number of times the SIGINT handler calls stop()
MaxStops == 2

\* number of texts and @import rules in the style file being compiled
MaxParts == 2

\* number of resolveImports calls kept of a chain of nested calls: more than
\* there are style files, so a chain this long names a file twice
MaxDepth == 4

\* --------------------------------------------------------------- constants
\* the watched files the model delivers events for
Paths == {"src/index.html", "src/main.js", "src/style.css", "static/logo.png"}

\* the suffix after the last dot of each path (what endsWith / the regexes test)
Ext ==
  ("src/index.html" :> "html") @@ ("src/main.js" :> "js") @@
  ("src/style.css" :> "css") @@ ("static/logo.png" :> "png") @@
  ("src/theme.styl" :> "styl") @@ ("static/notes.txt" :> "txt") @@
  ("public/robots.txt" :> "txt")

\* the leading directory of each path (what startsWith tests)
Dir ==
  ("src/index.html" :> "src") @@ ("src/main.js" :> "src") @@
  ("src/style.css" :> "src") @@ ("static/logo.png" :> "static") @@
  ("src/theme.styl" :> "src") @@ ("static/notes.txt" :> "static") @@
  ("public/robots.txt" :> "public")

\* config.staticDir
staticDir == "static"

\* config.publicDir
publicDir == "public"

\* the files the watcher subscribes to when css.include also lists
\* src/**/*.styl: what globby(watchPatterns) returns
watchPatterns ==
  {f \in Paths \cup {"src/theme.styl", "static/notes.txt", "public/robots.txt"} :
     \/ Dir[f] = "src" /\ Ext[f] \in {"html", "js", "css", "styl"}
     \/ Dir[f] = staticDir
     \/ Dir[f] = publicDir}

Stages == {"scripts", "styles", "assets", "static", "html"}

\* the order of the tasks build() hands to runPipeline
BuildOrder == <<"scripts", "styles", "assets", "static", "html">>

\* the module files of the project; lib is named in config.external
Modules == {"/src/a.js", "/src/lib.js"}

\* the module files of the project whose dependency graph is built
GraphModules == Modules \cup {"/src/b.js", "/src/c.js"}

\* config.entry of the Build
graphEntry == "/src/a.js"

\* path.basename(filePath, path.extname(filePath))
BaseName ==
  ("/src/a.js" :> "a") @@ ("/src/lib.js" :> "lib") @@ ("/src/b.js" :> "b") @@ ("/src/c.js" :> "c")

\* config.external
external == {"lib"}

\* the source files of the project seen by the stages: the entry script, one
\* markup file, one style file, one content-hashed asset and one font
\* (the project has no static and no public directory)
entry == "src/main.js"
HtmlFiles == {"src/index.html"}
CssFiles == {"src/style.css"}
AssetFiles == {"src/assets/data.json"}
FontFiles == {"src/assets/font.woff"}
SrcFiles == {entry} \cup HtmlFiles \cup CssFiles \cup AssetFiles \cup FontFiles

\* path.basename without extension, and the extension, of the source files
SrcBase ==
  ("src/main.js" :> "main") @@ ("src/index.html" :> "index") @@
  ("src/style.css" :> "style") @@ ("src/assets/data.json" :> "data") @@
  ("src/assets/font.woff" :> "font")
SrcExt ==
  ("src/main.js" :> "js") @@ ("src/index.html" :> "html") @@
  ("src/style.css" :> "css") @@ ("src/assets/data.json" :> "json") @@
  ("src/assets/font.woff" :> "woff")

\* the files css.include can match in the style plug-in's project
StyleFiles == {"src/style.css", "src/theme.css"}

\* the style files whose @import rules may name each other
ImportFiles == {"main", "p", "q"}

\* path.basename of the style files
StyleBase == ("src/style.css" :> "style.css") @@ ("src/theme.css" :> "theme.css")

\* the asset classes that keep or lack a cache
Classes == {"scripts", "styles", "assets", "fonts", "html"}

VARIABLES
  mtime,           \* modification time of each source file; its content version
  cacheScripts,    \* #cache.scripts: entries [key, mtime]
  cacheStyles,     \* #cache.styles: entries [key, mtime, hash]
  cacheAssets,     \* #cache.assets: entries [key, mtime, outputPath]
  cacheHtml,       \* #cache.html: entries [key, mtime, html]
  outDir,          \* the files of the output directory: [name, data]
  run,             \* the build or rebuild pass being run: its kind and the stages left
  hits,            \* per asset class: did the current run take the hit or the miss path
  unchangedRun,    \* no source file changed between the previous run and this one
  prevOut,         \* in a run with no source changed: the output directory the previous run left
  dirty,           \* a source file changed since the current run started
  styleSrc,        \* content of each style file matched by css.include; 0 when absent
  esbuild,         \* the esbuild context: "off", watching and "idle", or "building"
  ranBefore        \* a run has completed

VARIABLES
  bpc,             \* position of Build.build(): idle, traverse, await, bundle, done
  queue,           \* buildDependencyGraph: the work stack
  visited,         \* buildDependencyGraph: the visited set
  processed,       \* per path: processFile calls of the current traversal (counted up to 2)
  modulesOut,      \* the collection buildDependencyGraph returned: pairs <<path, graph.get(path)>>
  outcome,         \* success field of what Build.build() returned last
  bundleWritten,   \* the current build wrote its bundle
  stable,          \* no module file was edited since the current build started
  editCount        \* number of edits of module files so far

VARIABLES
  modCode,         \* per bundled file: the specifiers its transpiled code passes to require
  modules,         \* the emitted bundle's registry: pairs <<id, file>>
  moduleCache,     \* ids of the registry entries whose cache field is set
  factoryRuns,     \* per file: how many times its factory was called (counted up to 2)
  stack,           \* the factories being executed, innermost last: [file, pending]
  rpc              \* position of the emitted bundle: off, register, run, done, threw

VARIABLES
  impl,            \* the JoltBundler class in use: core/Bundler.js ("core") or the plugin-based one ("plugins")
  abortController, \* #abortController: the id of the AbortController the field holds
  aborted,         \* ids of the AbortControllers whose abort() was called
  esbuildContext,  \* #esbuildContext: 1 when it holds the context, 0 when null
  contextOpen,     \* the esbuild context exists and was not disposed
  watcherOpen,     \* the file watcher exists and was not closed
  stopPc,          \* position of stop(): idle, called, watcherDone, disposed, returned
  stopCaller,      \* who called stop(): the SIGINT handler ("user") or build()'s catch ("build")
  stopContext,     \* stopBuildProcess: its context argument
  stops,           \* number of stop() calls of the SIGINT handler
  stageAt,         \* per stage: idle, glob, body, resolved, rejected
  stageSignal,     \* per stage: id of the controller whose signal the stage was handed; 0 = none
  stagePhase,      \* per stage: started "before" the last stop() call, "during" it, or since ("current")
  raised,          \* per stage: the name of the error its operations raised
  errorLogged      \* something was logged at error level

VARIABLES
  optOut,          \* per processed file: none, optimised, original (the fallback), failed
  optStage,        \* per owning stage: idle, running, resolved, rejected
  logged,          \* the levels at which Logger was called: "warn", "error"
  cssParts,        \* the style file being compiled: its texts and @import rules, in order
  cssReadable,     \* the import targets fs.readFile can read
  cssResult,       \* what resolveImports returned for the style file
  cssPc            \* position of the style stage: idle, resolved, written, rejected

VARIABLES
  rebuild,         \* the rebuild pass of the markup model: its position and its drained batch
  execs,           \* the stage executions and build-end callbacks in flight: [stage, owner, pc, stat]
  served,          \* the batches of the passes whose markup stage served a file from the cache
  mutators         \* who else wrote the markup cache while a pass's markup stage was in flight

VARIABLES
  isBuilding,      \* Watcher.isBuilding
  rebuildTimeout,  \* Watcher.rebuildTimeout: id of the last timer set, 0 = undefined
  scheduled,       \* the Watcher's timers not yet fired or cleared: [id, event, path]
  fileEvents,      \* number of file events the Watcher was handed; the id of the last one
  building,        \* the event and path the running rebuild was scheduled for
  owed             \* events handed over during a build, no rebuild started since

VARIABLES
  assetsCache,     \* htmlPlug's assetsCache: empty = null, else the lists fetchAssets returned
  sassCache,       \* cssPlug's module-level sassCache: per style file the content its entry was compiled from
  bundleCache,     \* cssPlug's cache.hash: empty = '', else the hash of the bundle written last
  cssChunks,       \* per style file: the content the chunk of the last afterBuild was compiled from
  pluginPc,        \* position of a Build with plug-ins: idle, written, css
  styleImports,    \* per style file: the files its @import rules name
  importStack,     \* the resolveImports calls awaiting their imports, innermost last: [file, todo, odd]
  importPc         \* position of the outermost resolveImports call: idle, running, returned

VARIABLES
  configEntry,     \* the entry path as configured: relative to the working directory or absolute
  bundleFormat,    \* config.format: "esm" or "iife"
  sourcemaps,      \* the transpiler returns a source map for the files it transforms
  graphRecords,    \* what buildDependencyGraph returned for the entry: records [path, map]
  bundleOut,       \* what generateESBundle or generateIIFEBundle returned: [kind, map]
  accessible,      \* the paths fs.access accepts
  resolveCall,     \* the arguments of the resolvePath call
  resolveResult    \* what that call returned or threw

VARIABLES
  cacheOn,         \* config.cache
  disk,            \* the content of each module file
  hashCache,       \* Build.#cache: path -> recorded content hash (empty = no entry)
  graph,           \* Build.#graph: path -> ModuleRecord (empty = no entry)
  calls,           \* processFile calls between needsRebuild and graph.set
  lastCall,        \* the processFile call that returned or threw last
  alive,           \* the process has not called process.exit
  parallel,        \* config.parallel
  watchMode,       \* config.watch
  watcher,         \* config.watcher is set
  buildPc,         \* position of the build() call: none, clean, pipeline, returned
  seqIdx,          \* sequential mode: index in BuildOrder of the task being awaited
  activeBuilds,    \* #activeBuilds: the task functions being run by queueTask
  pendingQueue,    \* #pendingQueue, in insertion order
  resubmitted,     \* tasks queueTask was invoked for while they ran, not run again since
  pendingChanges,  \* config.pendingChanges
  debounceTimer,   \* config.debounceTimer: id of the last timer set, 0 = null
  armed,           \* timers scheduled and not yet fired or cleared
  eventCount,      \* number of events delivered; the id of the last timer
  activeRebuild,   \* config.activeRebuild
  passes,          \* processChanges invocations past the guard and before finally
  leaked,          \* stage executions of ended passes that are still running
  lateAdds         \* paths added while a pass was in flight and not yet drained

watchVars ==
  <<alive, parallel, watchMode, watcher, buildPc, seqIdx, activeBuilds,
    pendingQueue, resubmitted, pendingChanges, debounceTimer, armed, eventCount,
    activeRebuild, passes, leaked, lateAdds>>

bundleVars == <<modCode, modules, moduleCache, factoryRuns, stack, rpc>>

travVars ==
  <<bpc, queue, visited, processed, modulesOut, outcome, bundleWritten, stable, editCount,
    bundleVars>>

moduleVars == <<disk, hashCache, graph, calls, lastCall, travVars>>

stageVars ==
  <<mtime, cacheScripts, cacheStyles, cacheAssets, cacheHtml, outDir, run, hits,
    unchangedRun, prevOut, dirty, styleSrc, esbuild, ranBefore>>

lifecycleVars ==
  <<impl, abortController, aborted, esbuildContext, contextOpen, watcherOpen, stopPc,
    stopCaller, stopContext, stops, stageAt, stageSignal, stagePhase, raised, errorLogged>>

optVars == <<optOut, optStage, logged, cssParts, cssReadable, cssResult, cssPc>>

\* the state of the parts that are modelled on their own
markupVars == <<rebuild, execs, served, mutators>>

watcherVars == <<isBuilding, rebuildTimeout, scheduled, fileEvents, building, owed>>

pathVars ==
  <<configEntry, bundleFormat, sourcemaps, graphRecords, bundleOut, accessible, resolveCall,
    resolveResult>>

pluginVars ==
  <<assetsCache, sassCache, bundleCache, cssChunks, pluginPc, styleImports, importStack, importPc>>

auxVars == <<optVars, markupVars, watcherVars, pathVars, pluginVars>>

vars == <<cacheOn, watchVars, moduleVars, stageVars, lifecycleVars, auxVars>>

\* ------------------------------------------------- change classification
\* changedFiles.some(f => f.endsWith('.js') || f.endsWith('.html'))
needsPreHtml(changedFiles) ==
  \E f \in changedFiles : Ext[f] = "js" \/ Ext[f] = "html"

hasHTML(changedFiles) == \E f \in changedFiles : Ext[f] = "html"

hasCSS(changedFiles) == \E f \in changedFiles : Ext[f] \in {"css", "scss", "sass", "less"}

hasJS(changedFiles) == \E f \in changedFiles : Ext[f] \in {"js", "jsx", "ts", "tsx"}

hasAssets(changedFiles) ==
  \E f \in changedFiles :
    Ext[f] \in {"png", "jpg", "jpeg", "gif", "svg", "webp", "avif", "woff", "woff2", "ttf", "eot"}

hasStatic(changedFiles) ==
  \E f \in changedFiles : Dir[f] = staticDir \/ Dir[f] = "src/public"

\* the stage functions the try block of processChanges pushes on tasks
tasksFor(changedFiles) ==
  (IF hasStatic(changedFiles) THEN {"static"} ELSE {}) \cup
  (IF hasCSS(changedFiles) THEN {"styles"} ELSE {}) \cup
  (IF hasJS(changedFiles) THEN {"scripts"} ELSE {}) \cup
  (IF hasAssets(changedFiles) THEN {"assets"} ELSE {}) \cup
  (IF hasHTML(changedFiles) \/ hasCSS(changedFiles) \/ hasJS(changedFiles)
     THEN {"html"} ELSE {})

\* ---------------------------------------------------------- task pipeline
Task(s, b) == [stage |-> s, bind |-> b]

\* queueTask's guard: a task function that is already in #activeBuilds is not started
queueTaskAdmits(active, task) == task \notin active

\* number of executions of stage s in flight, whoever started them
InFlight(s) ==
  Cardinality({t \in activeBuilds : t.stage = s}) +
  Cardinality({f \in passes : f.pc = "stages" /\ s \in f.awaiting}) +
  (IF s = "html" THEN Cardinality({f \in passes : f.pc = "preHtml"}) ELSE 0) +
  leaked[s]

\* ------------------------------------------------------------ module cache
\* hashFile: the SHA-256 digest of the content
hashFile(content) == <<"sha256", content>>

\* the transpiler: the code it returns is determined by the content
transform(content) == <<"swc", content>>

\* the resolved local imports of module m when it has the given content
\* (parseImports of the transpiled code, each resolved by resolvePath)
\* a imports lib in its first version; a, b and c import each other in a cycle
\* as long as c is in its first version; later versions of b import b itself;
\* content 0 is text the transpiler rejects
importsOf(m, content) ==
  IF content = 0 THEN {}
  ELSE IF m = "/src/a.js" THEN (IF content = 1 THEN {"/src/lib.js", "/src/b.js"} ELSE {"/src/b.js"})
  ELSE IF m = "/src/b.js" THEN (IF content = 1 THEN {"/src/c.js"} ELSE {"/src/b.js", "/src/c.js"})
  ELSE IF m = "/src/c.js" THEN (IF content = 1 THEN {"/src/a.js"} ELSE {})
  ELSE {}

isExternalDependency(filePath) == BaseName[filePath] \in external

\* a needsRebuild that never reports a cached file as unchanged
needsRebuildAlways(enabled, cached, hash) == TRUE

\* needsRebuild: true when caching is off or the recorded hash differs
needsRebuild(enabled, cached, hash) ==
  IF ~enabled THEN TRUE ELSE cached /= {hash}

\* the cache after needsRebuild: a differing hash is recorded at once
recordHash(enabled, cached, hash) ==
  IF enabled /\ cached /= {hash} THEN {hash} ELSE cached

ModuleRecord(m, content) ==
  [path |-> m, code |-> transform(content), dependencies |-> importsOf(m, content)]

NoCall ==
  [path |-> "", kind |-> "none", node |-> {}, prior |-> {}, cached |-> {},
   fileHash |-> <<>>, needs |-> FALSE, invoked |-> {}]

\* ------------------------------------------------- the emitted bundle
\* a file path: its directory (absolute, as segments), base name and extension
fileA == [dir |-> <<"src">>, name |-> "a", ext |-> "js"]
fileB == [dir |-> <<"src">>, name |-> "b", ext |-> "js"]
fileD == [dir |-> <<"src", "sub">>, name |-> "d", ext |-> "js"]
fileE == [dir |-> <<"src", "sub">>, name |-> "e", ext |-> "ts"]

\* the module files of the bundled project, and its entry
BundleFiles == {fileA, fileB, fileD, fileE}
entryPath == fileA

\* path.dirname
dirname(filePath) == filePath.dir

\* the text of an import specifier or of a module id: lead, directory
\* segments, name and extension; two texts are equal when all four are
Specifier(lead, dir, name, ext) == [lead |-> lead, dir |-> dir, name |-> name, ext |-> ext]

\* the specifiers a file's source may import: './b', './b.js', './sub/d' in
\* a.js; './a' and './b' in b.js; './e' and '../b' in sub/d.js
SpecifiersOf(f) ==
  CASE f = fileA -> {Specifier("./", <<>>, "b", ""), Specifier("./", <<>>, "b", "js"),
                     Specifier("./", <<"sub">>, "d", "")}
    [] f = fileB -> {Specifier("./", <<>>, "a", ""), Specifier("./", <<>>, "b", "")}
    [] f = fileD -> {Specifier("./", <<>>, "e", ""), Specifier("", <<"..">>, "b", "")}
    [] OTHER -> {}

\* no bundle has been emitted
InitBundleFields ==
  /\ modCode = [f \in BundleFiles |-> {}]
  /\ modules = {}
  /\ moduleCache = {}
  /\ factoryRuns = [f \in BundleFiles |-> 0]
  /\ stack = <<>>
  /\ rpc = "off"

\* ------------------------------------------------------------------- Init
\* no Build.build() call yet
InitTravFields ==
  /\ bpc = "idle"
  /\ queue = <<>>
  /\ visited = {}
  /\ processed = [m \in GraphModules |-> 0]
  /\ modulesOut = {}
  /\ outcome = "none"
  /\ bundleWritten = FALSE
  /\ stable = TRUE
  /\ editCount = 0

\* a Build instance after construction: empty cache and graph
InitModuleFields ==
  /\ disk = [m \in Modules |-> 1]
  /\ hashCache = [m \in Modules |-> {}]
  /\ graph = [m \in Modules |-> {}]
  /\ calls = {}
  /\ lastCall = NoCall
  /\ InitTravFields
  /\ InitBundleFields

\* the files an optional collaborator works on, with the collaborator and
\* the stage that owns each
OptFiles == {"photo.png", "icon.svg", "font.ttf", "index.html"}

Collaborator ==
  [f \in OptFiles |->
     CASE f = "photo.png" -> "sharp"
       [] f = "icon.svg" -> "svgo"
       [] f = "font.ttf" -> "subset-font"
       [] OTHER -> "html-minifier"]

OwnerStage == [f \in OptFiles |-> IF f = "index.html" THEN "html" ELSE "assets"]

OptStages == {"assets", "html"}

\* no stage has run and no style file is being compiled
InitOptFields ==
  /\ optOut = [f \in OptFiles |-> "none"]
  /\ optStage = [s \in OptStages |-> "idle"]
  /\ logged = {}
  /\ cssParts = <<>>
  /\ cssReadable = {}
  /\ cssResult = <<>>
  /\ cssPc = "idle"

\* no rebuild pass has started
InitMarkupFields ==
  /\ rebuild = [pc |-> "idle", changed |-> {}]
  /\ execs = {}
  /\ served = {}
  /\ mutators = {}

\* a Watcher after construction
InitWatcherFields ==
  /\ isBuilding = FALSE
  /\ rebuildTimeout = 0
  /\ scheduled = {}
  /\ fileEvents = 0
  /\ building = {}
  /\ owed = {}

\* no bundle was generated and resolvePath was not called
InitPathFields ==
  /\ configEntry = [abs |-> TRUE, segs |-> <<>>]
  /\ bundleFormat = "iife"
  /\ sourcemaps = FALSE
  /\ graphRecords = <<>>
  /\ bundleOut = [kind |-> "none", map |-> {}]
  /\ accessible = {}
  /\ resolveCall = {}
  /\ resolveResult = [kind |-> "none", path |-> {}, message |-> {}]

\* the plug-ins of jolt.config.js after they were created, and no style file
\* being resolved
InitPluginFields ==
  /\ assetsCache = {}
  /\ sassCache = [f \in CssFiles |-> {}]
  /\ bundleCache = {}
  /\ cssChunks = [f \in CssFiles |-> {}]
  /\ pluginPc = "idle"
  /\ styleImports = [f \in ImportFiles |-> {}]
  /\ importStack = <<>>
  /\ importPc = "idle"

InitAuxFields ==
  /\ InitOptFields
  /\ InitMarkupFields
  /\ InitWatcherFields
  /\ InitPathFields
  /\ InitPluginFields

\* the stages whose file-glob call is handed the abort signal
AbortStages == {"styles", "assets"}

\* #abortController = new AbortController(), #esbuildContext = null; no
\* stage has started
InitLifecycleFields ==
  /\ abortController = 1
  /\ aborted = {}
  /\ esbuildContext = 0
  /\ contextOpen = FALSE
  /\ watcherOpen = FALSE
  /\ stopPc = "idle"
  /\ stopCaller = "none"
  /\ stopContext = 0
  /\ stops = 0
  /\ stageAt = [s \in AbortStages |-> "idle"]
  /\ stageSignal = [s \in AbortStages |-> 0]
  /\ stagePhase = [s \in AbortStages |-> "none"]
  /\ raised = [s \in AbortStages |-> "none"]
  /\ errorLogged = FALSE

\* a JoltBundler after construction
InitWatchFields ==
  /\ InitLifecycleFields
  /\ alive = TRUE
  /\ watcher = FALSE
  /\ buildPc = "none"
  /\ seqIdx = 0
  /\ activeBuilds = {}
  /\ pendingQueue = <<>>
  /\ resubmitted = {}
  /\ pendingChanges = {}
  /\ debounceTimer = 0
  /\ armed = {}
  /\ eventCount = 0
  /\ activeRebuild = FALSE
  /\ passes = {}
  /\ leaked = [s \in Stages |-> 0]
  /\ lateAdds = {}

NoRun == [kind |-> "none", todo |-> {}]

\* the caches of a JoltBundler after construction, over an empty output directory
InitStageFields ==
  /\ mtime = [f \in SrcFiles |-> 1]
  /\ cacheScripts = {}
  /\ cacheStyles = {}
  /\ cacheAssets = {}
  /\ cacheHtml = {}
  /\ outDir = {}
  /\ run = NoRun
  /\ hits = [c \in Classes |-> "none"]
  /\ unchangedRun = FALSE
  /\ prevOut = {}
  /\ dirty = FALSE
  /\ styleSrc = [f \in StyleFiles |-> IF f = "src/style.css" THEN 1 ELSE 0]
  /\ esbuild = "off"
  /\ ranBefore = FALSE

Init ==
  /\ cacheOn = TRUE
  /\ parallel \in BOOLEAN
  /\ watchMode \in BOOLEAN
  /\ InitWatchFields
  /\ impl = "core"
  /\ InitAuxFields
  /\ InitModuleFields
  /\ InitStageFields

InitModules ==
  /\ cacheOn \in BOOLEAN
  /\ parallel = TRUE
  /\ watchMode = TRUE
  /\ InitWatchFields
  /\ impl = "core"
  /\ InitAuxFields
  /\ InitModuleFields
  /\ InitStageFields

\* a JoltBundler with caching enabled and the default parallel pipeline
InitStages ==
  /\ cacheOn = TRUE
  /\ parallel = TRUE
  /\ watchMode \in BOOLEAN
  /\ InitWatchFields
  /\ impl = "core"
  /\ InitAuxFields
  /\ InitModuleFields
  /\ InitStageFields

\* ------------------------------------------------------------ build()
otherUnchanged == UNCHANGED <<cacheOn, moduleVars, stageVars, lifecycleVars, auxVars>>

buildUnchangedWatch ==
  /\ UNCHANGED <<debounceTimer, armed, eventCount, passes, leaked, lateAdds>>
  /\ otherUnchanged

\* build() is called (index.js calls it once): it starts with #cleanOutput
build ==
  /\ alive /\ buildPc = "none"
  /\ buildPc' = "clean"
  /\ UNCHANGED <<alive, parallel, watchMode, watcher, seqIdx, activeBuilds, pendingQueue,
                 resubmitted, pendingChanges, activeRebuild>>
  /\ buildUnchangedWatch

\* the catch block of build(): stop() and process.exit(1)
buildFailed ==
  /\ alive' = FALSE
  /\ watcher' = FALSE
  /\ buildPc' = "returned"

\* the tail of build() after the pipeline: #startWatcher when config.watch
buildCompleted ==
  /\ alive' = alive
  /\ buildPc' = "returned"
  /\ IF watchMode /\ ~watcher
       THEN /\ watcher' = TRUE
            /\ pendingChanges' = {}
            /\ debounceTimer' = 0
            /\ activeRebuild' = FALSE
       ELSE UNCHANGED <<watcher, pendingChanges, debounceTimer, activeRebuild>>

\* a pipeline that hands every task to queueTask at once in both modes
runPipelineAllAtOnce(par) == {Task(s, 1) : s \in Stages}

\* #runPipeline up to its first await: the tasks handed to #queueTask, all of
\* them under Promise.all when config.parallel, else the first of the for loop
runPipeline(par) ==
  IF par THEN {Task(s, 1) : s \in Stages} ELSE {Task(BuildOrder[1], 1)}

\* #cleanOutput settles; on success #runPipeline hands the tasks to #queueTask:
\* all of them at once when config.parallel, else the first one
cleanOutput(ok) ==
  /\ alive /\ buildPc = "clean"
  /\ IF ~ok
       THEN /\ buildFailed
            /\ UNCHANGED <<seqIdx, activeBuilds, resubmitted>>
       ELSE LET tasks == runPipeline(parallel)
                admitted == {t \in tasks : queueTaskAdmits(activeBuilds, t)}
            IN /\ activeBuilds' = activeBuilds \cup admitted
               /\ resubmitted' = resubmitted \ admitted
               /\ seqIdx' = IF parallel THEN 0 ELSE 1
               /\ buildPc' = "pipeline"
               /\ UNCHANGED <<alive, watcher>>
  /\ UNCHANGED <<parallel, watchMode, pendingQueue, pendingChanges,
                 debounceTimer, activeRebuild>>
  /\ UNCHANGED <<armed, eventCount, passes, leaked, lateAdds>>
  /\ otherUnchanged

\* a task run by #queueTask settles: the finally block deletes it from
\* #activeBuilds and replays the head of #pendingQueue; then Promise.all or the
\* for loop of #runPipeline goes on
settleTask(t, ok) ==
  /\ alive /\ buildPc = "pipeline" /\ t \in activeBuilds
  /\ LET afterDelete == activeBuilds \ {t}
         replay == IF pendingQueue /= <<>> /\ queueTaskAdmits(afterDelete, Head(pendingQueue))
                     THEN {Head(pendingQueue)} ELSE {}
         active1 == afterDelete \cup replay
         more == ~parallel /\ seqIdx < Len(BuildOrder)
         next == IF more /\ queueTaskAdmits(active1, Task(BuildOrder[seqIdx + 1], t.bind))
                   THEN {Task(BuildOrder[seqIdx + 1], t.bind)} ELSE {}
     IN /\ pendingQueue' = IF pendingQueue /= <<>> THEN Tail(pendingQueue) ELSE <<>>
        /\ IF ~ok
             THEN /\ buildFailed
                  /\ activeBuilds' = active1
                  /\ resubmitted' = resubmitted \ replay
                  /\ UNCHANGED <<seqIdx, pendingChanges, debounceTimer, activeRebuild>>
             ELSE IF more
               THEN /\ activeBuilds' = active1 \cup next
                    /\ resubmitted' = resubmitted \ (replay \cup next)
                    /\ seqIdx' = seqIdx + 1
                    /\ UNCHANGED <<alive, watcher, buildPc, pendingChanges, debounceTimer,
                                   activeRebuild>>
               ELSE /\ activeBuilds' = active1
                    /\ resubmitted' = resubmitted \ replay
                    /\ UNCHANGED seqIdx
                    /\ IF {u \in active1 : u.bind = t.bind} = {}
                         THEN buildCompleted
                         ELSE UNCHANGED <<alive, watcher, buildPc, pendingChanges,
                                          debounceTimer, activeRebuild>>
  /\ UNCHANGED <<parallel, watchMode>>
  /\ UNCHANGED <<armed, eventCount, passes, leaked, lateAdds>>
  /\ otherUnchanged

\* queueTask is invoked again for a task function that is running
\* (the same function handed to the pipeline a second time)
resubmitTask(t) ==
  /\ alive /\ buildPc = "pipeline" /\ t \in activeBuilds
  /\ IF queueTaskAdmits(activeBuilds, t)
       THEN /\ activeBuilds' = activeBuilds \cup {t}
            /\ resubmitted' = resubmitted \ {t}
       ELSE /\ resubmitted' = resubmitted \cup {t}
            /\ UNCHANGED activeBuilds
  /\ UNCHANGED <<alive, parallel, watchMode, watcher, buildPc, seqIdx,
                 pendingQueue, pendingChanges, activeRebuild>>
  /\ buildUnchangedWatch

\* ------------------------------------------------------------- watch loop
\* a clearTimeout that cancels nothing
clearTimeoutNever(timers, id) == timers

\* clearTimeout: the timer with that id no longer fires
clearTimeout(timers, id) == timers \ {id}

\* the control state processChanges reads and writes
WatchState ==
  [pend |-> pendingChanges, active |-> activeRebuild, frames |-> passes,
   now |-> eventCount]

\* a guard that forgets the in-flight flag
rebuildGuardNoFlag(active, pend) == pend = {}

\* the guard of processChanges: return when a rebuild is active or nothing is pending
rebuildGuard(active, pend) == active \/ pend = {}

RECURSIVE processChanges(_, _), tryBlock(_, _), finallyBlock(_)

\* processChanges up to its first suspension: the guard, the snapshot of
\* pendingChanges and its clear, then either the processHtml call that precedes
\* the try block or the try block itself
processChanges(S, fromIdle) ==
  IF rebuildGuard(S.active, S.pend)
    THEN S
    ELSE LET fr == [id |-> S.now, pc |-> "preHtml", changed |-> S.pend,
                    awaiting |-> {}, invoked |-> {}, fromIdle |-> fromIdle]
             S1 == [S EXCEPT !.active = TRUE, !.pend = {}]
         IN IF needsPreHtml(fr.changed)
              THEN [S1 EXCEPT !.frames = @ \cup {[fr EXCEPT !.invoked = {"html"}]}]
              ELSE tryBlock(S1, fr)

\* the try block: the stage functions are called, then Promise.all(tasks) is awaited;
\* with no task it resolves at once
tryBlock(S, fr) ==
  LET tasks == tasksFor(fr.changed)
  IN IF tasks = {}
       THEN finallyBlock(S)
       ELSE [S EXCEPT !.frames = @ \cup {[fr EXCEPT !.pc = "stages", !.awaiting = tasks,
                                                   !.invoked = @ \cup tasks]}]

\* the finally block: activeRebuild is reset and processChanges is called again
\* when pendingChanges is not empty
finallyBlock(S) ==
  LET S1 == [S EXCEPT !.active = FALSE]
  IN IF S1.pend /= {} THEN processChanges(S1, FALSE) ELSE S1

SetWatchState(S) ==
  /\ pendingChanges' = S.pend
  /\ activeRebuild' = S.active
  /\ passes' = S.frames
  /\ lateAdds' = lateAdds \cap S.pend

buildUnchanged ==
  /\ UNCHANGED <<alive, parallel, watchMode, watcher, buildPc, seqIdx,
                 activeBuilds, pendingQueue, resubmitted>>
  /\ otherUnchanged

\* the watcher delivers an add / change / unlink event for filePath
handleChange(filePath) ==
  /\ alive /\ watcher /\ eventCount < MaxEvents
  /\ pendingChanges' = pendingChanges \cup {filePath}
  /\ armed' = clearTimeout(armed, debounceTimer) \cup {eventCount + 1}
  /\ debounceTimer' = eventCount + 1
  /\ eventCount' = eventCount + 1
  /\ lateAdds' = IF passes /= {} THEN lateAdds \cup {filePath} ELSE lateAdds
  /\ UNCHANGED <<activeRebuild, passes, leaked>>
  /\ buildUnchanged

\* a debounce timer fires and calls processChanges
timerFire(id) ==
  /\ alive /\ id \in armed
  /\ armed' = armed \ {id}
  /\ SetWatchState(processChanges(WatchState, TRUE))
  /\ UNCHANGED <<debounceTimer, eventCount, leaked>>
  /\ buildUnchanged

\* the processHtml call that precedes the try block settles; when it rejects,
\* processChanges rejects there: neither catch nor finally runs
preHtmlSettle(fr, ok) ==
  /\ alive /\ fr \in passes /\ fr.pc = "preHtml"
  /\ LET S == [WatchState EXCEPT !.frames = @ \ {fr}]
     IN IF ok
          THEN SetWatchState(tryBlock(S, fr))
          ELSE SetWatchState(S)
  /\ UNCHANGED <<debounceTimer, armed, eventCount, leaked>>
  /\ buildUnchanged

\* one of the stages awaited by Promise.all(tasks) settles: the pass goes on
\* when all have resolved, and leaves the try block at the first rejection
\* while the other stages keep running
stageSettle(fr, s, ok) ==
  /\ alive /\ fr \in passes /\ fr.pc = "stages" /\ s \in fr.awaiting
  /\ LET S == [WatchState EXCEPT !.frames = @ \ {fr}]
         rest == fr.awaiting \ {s}
     IN IF ok
          THEN /\ IF rest = {}
                    THEN SetWatchState(finallyBlock(S))
                    ELSE SetWatchState([S EXCEPT !.frames = @ \cup {[fr EXCEPT !.awaiting = rest]}])
               /\ UNCHANGED leaked
          ELSE /\ SetWatchState(finallyBlock(S))
               /\ leaked' = [t \in Stages |-> leaked[t] + (IF t \in rest THEN 1 ELSE 0)]
  /\ UNCHANGED <<debounceTimer, armed, eventCount>>
  /\ buildUnchanged

\* a stage execution that its pass no longer awaits settles
leakedSettle(s) ==
  /\ alive /\ leaked[s] > 0
  /\ leaked' = [leaked EXCEPT ![s] = @ - 1]
  /\ UNCHANGED <<pendingChanges, debounceTimer, armed, eventCount, activeRebuild, passes,
                 lateAdds>>
  /\ buildUnchanged

\* ------------------------------------------------------------------- Spec
Next ==
  \/ build
  \/ \E ok \in BOOLEAN : cleanOutput(ok)
  \/ \E t \in activeBuilds, ok \in BOOLEAN : settleTask(t, ok)
  \/ \E t \in activeBuilds : resubmitTask(t)
  \/ \E filePath \in Paths : handleChange(filePath)
  \/ \E id \in armed : timerFire(id)
  \/ \E fr \in passes, ok \in BOOLEAN : preHtmlSettle(fr, ok)
  \/ \E fr \in passes, s \in Stages, ok \in BOOLEAN : stageSettle(fr, s, ok)
  \/ \E s \in Stages : leakedSettle(s)

Spec == Init /\ [][Next]_vars

\* ------------------------------------------------- processFile (SpecModules)
\* a module file is edited
editFile(m, content) ==
  /\ ~isExternalDependency(m) /\ content /= disk[m]
  /\ disk' = [disk EXCEPT ![m] = content]
  /\ UNCHANGED <<hashCache, graph, calls, lastCall, cacheOn, watchVars, stageVars, lifecycleVars, auxVars, bundleVars>>

\* processFile is called for filePath and runs up to the end of needsRebuild:
\* an external path returns a stub; a file whose hash is recorded and that has a
\* record in the graph returns that record; otherwise the call goes on to read
\* and transpile the file
processFile(id, filePath) ==
  /\ \A c \in calls : c.id /= id
  /\ IF isExternalDependency(filePath)
       THEN /\ lastCall' = [NoCall EXCEPT !.path = filePath, !.kind = "stub"]
            /\ UNCHANGED <<hashCache, calls>>
       ELSE LET hash == hashFile(disk[filePath])
                needs == needsRebuild(cacheOn, hashCache[filePath], hash)
                info == [NoCall EXCEPT !.path = filePath, !.prior = graph[filePath],
                                       !.cached = hashCache[filePath],
                                       !.fileHash = hash, !.needs = needs]
            IN /\ hashCache' = [hashCache EXCEPT
                                  ![filePath] = recordHash(cacheOn, hashCache[filePath], hash)]
               /\ IF ~needs /\ graph[filePath] /= {}
                    THEN /\ lastCall' = [info EXCEPT !.kind = "hit", !.node = graph[filePath]]
                         /\ UNCHANGED calls
                    ELSE /\ calls' = calls \cup {[id |-> id, info |-> info]}
                         /\ UNCHANGED lastCall
  /\ UNCHANGED <<disk, graph, cacheOn, watchVars, stageVars, lifecycleVars, auxVars, bundleVars>>

\* the rest of processFile: readFile, transform, parseImports, resolvePath for
\* every import, graph.set; a failure of one of them rejects the call
finishProcessFile(c, fail) ==
  /\ c \in calls
  /\ fail = "resolve" => importsOf(c.info.path, disk[c.info.path]) /= {}
  /\ calls' = calls \ {c}
  /\ LET node == ModuleRecord(c.info.path, disk[c.info.path])
     IN IF fail = "none"
          THEN /\ graph' = [graph EXCEPT ![c.info.path] = {node}]
               /\ lastCall' = [c.info EXCEPT !.kind = "miss", !.node = {node},
                                  !.invoked = {"readFile", "transform", "parseImports", "resolvePath"}]
          ELSE /\ UNCHANGED graph
               /\ lastCall' = [c.info EXCEPT !.kind = "failed",
                                  !.invoked = IF fail = "read" THEN {"readFile"}
                                              ELSE IF fail = "transform" THEN {"readFile", "transform"}
                                              ELSE {"readFile", "transform", "parseImports", "resolvePath"}]
  /\ UNCHANGED <<disk, hashCache, cacheOn, watchVars, stageVars, lifecycleVars, auxVars, bundleVars>>

NextModules ==
  \/ \E m \in Modules, content \in 1..MaxContent : editFile(m, content) /\ UNCHANGED travVars
  \/ \E id \in 1..MaxCalls, filePath \in Modules :
        processFile(id, filePath) /\ UNCHANGED travVars
  \/ \E c \in calls, fail \in {"none", "read", "transform", "resolve"} :
        finishProcessFile(c, fail) /\ UNCHANGED travVars

SpecModules == InitModules /\ [][NextModules]_vars

\* ------------------------------------------------ asset stages (SpecStages)
\* createHash('sha256').update(content).digest('hex').slice(0, 8)
digest8(content) == <<"sha256/8", content>>

\* an output file name: base name, the content hash in it if any, extension
OutName(base, hash, ext) == [base |-> base, hash |-> hash, ext |-> ext]

\* the bytes of an output file: the version of the source it was made from and,
\* for markup, the script and style files it references
OutData(v, js, css) == [v |-> v, js |-> js, css |-> css]

\* fs.writeFile / fs.copyFile into the output directory
writeFile(out, name, data) ==
  {f \in out : f.name /= name} \cup {[name |-> name, data |-> data]}

\* Map.set(key, entry)
cacheSet(cache, item) == {e \in cache : e.key /= item.key} \cup {item}

\* the cache check of the stages ignoring config.cache
cacheHitUnconditional(enabled, cache, key, currentMtime) ==
  \E e \in cache : e.key = key /\ e.mtime = currentMtime

\* the cache check of the stages:
\* config.cache && cache.has(key) && cache.get(key).mtime === currentMtime
cacheHit(enabled, cache, key, currentMtime) ==
  enabled /\ \E e \in cache : e.key = key /\ e.mtime = currentMtime

\* hit or miss of a run for an asset class: one miss makes the class a miss
noteHit(h, class, isHit) ==
  [h EXCEPT ![class] = IF isHit /\ h[class] /= "miss" THEN "hit" ELSE "miss"]

\* the bytes read from source files whose versions are mt
contentOf(files, mt) == {<<f, mt[f]>> : f \in files}

\* the bundle esbuild writes for the entry: entryNames '[name]-[hash]'
bundleName(mt) == OutName(SrcBase[entry], {digest8(contentOf({entry}, mt))}, "js")

\* globby(outDir/**/*.js) and globby(outDir/**/*.css) of processHtml
jsFilesOf(out) == {f.name : f \in {g \in out : g.name.ext = "js"}}
cssFilesOf(out) == {f.name : f \in {g \in out : g.name.ext = "css"}}

\* Math.max of the mtimes of the style files
latestMtime(mt) == CHOOSE m \in {mt[f] : f \in CssFiles} : \A g \in CssFiles : mt[g] <= m

\* the processed style sheet: made from the current versions of the style files
processedCss(mt) == contentOf(CssFiles, mt)

\* processSingleHtml for one markup file
processSingleHtml(file, S) ==
  LET cacheKey == SrcBase[file]
      currentMtime == mtime[file]
      name == OutName(SrcBase[file], {}, "html")
  IN IF cacheHit(cacheOn, S.html, cacheKey, currentMtime)
       THEN LET cached == CHOOSE e \in S.html : e.key = cacheKey
            IN [S EXCEPT !.out = writeFile(S.out, name, cached.html),
                         !.hits = noteHit(S.hits, "html", TRUE)]
       ELSE LET html == OutData(currentMtime, jsFilesOf(S.out), cssFilesOf(S.out))
            IN [S EXCEPT !.out = writeFile(S.out, name, html),
                         !.html = cacheSet(S.html, [key |-> cacheKey, mtime |-> currentMtime,
                                                    html |-> html]),
                         !.hits = noteHit(S.hits, "html", FALSE)]

\* processFont: the font is copied, no cache is looked at
processFont(file, S) ==
  [S EXCEPT !.out = writeFile(S.out, OutName(SrcBase[file], {}, SrcExt[file]),
                              OutData(mtime[file], {}, {})),
            !.hits = noteHit(S.hits, "fonts", FALSE)]

\* processSingleAsset for a file whose output name carries a content hash
processSingleAsset(file, S) ==
  LET cacheKey == SrcBase[file]
      currentMtime == mtime[file]
      outputPath == OutName(SrcBase[file], {digest8(contentOf({file}, mtime))}, SrcExt[file])
  IN IF cacheHit(cacheOn, S.assets, cacheKey, currentMtime)
       THEN [S EXCEPT !.hits = noteHit(S.hits, "assets", TRUE)]
       ELSE [S EXCEPT !.out = writeFile(S.out, outputPath, OutData(currentMtime, {}, {})),
                      !.assets = cacheSet(S.assets, [key |-> cacheKey, mtime |-> currentMtime,
                                                     outputPath |-> outputPath]),
                      !.hits = noteHit(S.hits, "assets", FALSE)]

\* the caches, the output directory and the esbuild context as one value
StageState ==
  [scripts |-> cacheScripts, styles |-> cacheStyles, assets |-> cacheAssets,
   html |-> cacheHtml, out |-> outDir, hits |-> hits, esbuild |-> esbuild]

\* processScripts
processScripts(S) ==
  LET cacheKey == entry
      currentMtime == mtime[entry]
  IN IF cacheHit(cacheOn, S.scripts, cacheKey, currentMtime) /\ ~watchMode
       THEN [S EXCEPT !.hits = noteHit(S.hits, "scripts", TRUE)]
       ELSE LET T == [S EXCEPT !.scripts = cacheSet(S.scripts, [key |-> cacheKey,
                                                               mtime |-> currentMtime]),
                               !.hits = noteHit(S.hits, "scripts", FALSE)]
            IN IF watchMode
                 THEN [T EXCEPT !.esbuild = "building"]
                 ELSE [T EXCEPT !.out = writeFile(S.out, bundleName(mtime),
                                                  OutData(currentMtime, {}, {})),
                                !.html = {}]

\* processStyles
processStyles(S) ==
  LET cacheKey == {SrcBase[f] : f \in CssFiles}
      css == processedCss(mtime)
      outputFile == OutName("styles", {digest8(css)}, "css")
  IN IF cacheHit(cacheOn, S.styles, cacheKey, latestMtime(mtime))
       THEN [S EXCEPT !.hits = noteHit(S.hits, "styles", TRUE)]
       ELSE [S EXCEPT !.out = writeFile({f \in S.out : ~(f.name.base = "styles" /\ f.name.ext = "css")},
                                        outputFile, OutData(latestMtime(mtime), {}, {})),
                      !.styles = cacheSet(S.styles, [key |-> cacheKey, mtime |-> latestMtime(mtime),
                                                     hash |-> digest8(css)]),
                      !.hits = noteHit(S.hits, "styles", FALSE)]

\* processAssets: the files under src/assets, fonts apart
processAssets(S) ==
  LET font == CHOOSE f \in FontFiles : TRUE
      asset == CHOOSE f \in AssetFiles : TRUE
  IN processSingleAsset(asset, processFont(font, S))

\* processHtml
processHtml(S) ==
  LET file == CHOOSE f \in HtmlFiles : TRUE
  IN processSingleHtml(file, S)

\* copyStaticFiles: neither directory exists, nothing is copied
copyStaticFiles(S) == S

stageEffect(s, S) ==
  CASE s = "scripts" -> processScripts(S)
    [] s = "styles" -> processStyles(S)
    [] s = "assets" -> processAssets(S)
    [] s = "static" -> copyStaticFiles(S)
    [] s = "html" -> processHtml(S)
    [] s = "preHtml" -> processHtml(S)

SetStageState(S) ==
  /\ cacheScripts' = S.scripts
  /\ cacheStyles' = S.styles
  /\ cacheAssets' = S.assets
  /\ cacheHtml' = S.html
  /\ outDir' = S.out
  /\ hits' = S.hits
  /\ esbuild' = S.esbuild

stagesUnchanged ==
  UNCHANGED <<moduleVars, lifecycleVars, auxVars, parallel, watchMode, buildPc, seqIdx, activeBuilds, pendingQueue,
              resubmitted, pendingChanges, debounceTimer, armed, eventCount, passes, leaked,
              lateAdds, cacheOn, styleSrc>>

\* the paths the watcher reports: the markup, script and style sources
Watched == {entry} \cup HtmlFiles \cup CssFiles

RECURSIVE editsOf(_, _)
\* the number of saves that led to the modification times mt of files
editsOf(files, mt) ==
  IF files = {} THEN 0
  ELSE LET f == CHOOSE g \in files : TRUE
       IN (mt[f] - 1) + editsOf(files \ {f}, mt)

\* a source file is saved with new content
touch(f) ==
  /\ alive /\ editsOf(SrcFiles, mtime) < MaxEdits
  /\ mtime' = [mtime EXCEPT ![f] = @ + 1]
  /\ dirty' = TRUE
  /\ unchangedRun' = FALSE
  /\ esbuild' = IF f = entry /\ esbuild /= "off" THEN "building" ELSE esbuild
  /\ prevOut' = {}
  /\ UNCHANGED <<cacheScripts, cacheStyles, cacheAssets, cacheHtml, outDir, run, hits,
                 ranBefore, alive, watcher, activeRebuild>>
  /\ stagesUnchanged

\* esbuild in watch mode ends a build of the entry: the on-end plugin runs
\* handleScriptsBuildEnd
handleScriptsBuildEnd(ok) ==
  /\ alive /\ esbuild = "building"
  /\ esbuild' = "idle"
  /\ IF ok
       THEN /\ outDir' = writeFile(outDir, bundleName(mtime), OutData(mtime[entry], {}, {}))
            /\ cacheHtml' = {}
       ELSE UNCHANGED <<outDir, cacheHtml>>
  /\ UNCHANGED <<mtime, cacheScripts, cacheStyles, cacheAssets, run, hits, unchangedRun,
                 prevOut, dirty, ranBefore, alive, watcher, activeRebuild>>
  /\ stagesUnchanged

startRun ==
  /\ unchangedRun' = (ranBefore /\ ~dirty)
  /\ dirty' = FALSE
  /\ prevOut' = IF ranBefore /\ ~dirty THEN outDir ELSE {}

\* build(): cleanOutput, then the five stages handed to runPipeline
runBuild(ok) ==
  /\ alive /\ run.kind = "none"
  /\ startRun
  /\ IF ok
       THEN /\ SetStageState([StageState EXCEPT
                 !.out = {},
                 !.scripts = IF cacheOn THEN {} ELSE @,
                 !.styles = IF cacheOn THEN {} ELSE @,
                 !.assets = IF cacheOn THEN {} ELSE @,
                 !.html = IF cacheOn THEN {} ELSE @,
                 !.hits = [c \in Classes |-> "none"]])
            /\ run' = [kind |-> "build", todo |-> Stages]
            /\ UNCHANGED alive
       ELSE /\ SetStageState([StageState EXCEPT !.hits = [c \in Classes |-> "none"],
                                                !.esbuild = "off"])
            /\ run' = NoRun
            /\ alive' = FALSE
  /\ UNCHANGED <<mtime, ranBefore, watcher, activeRebuild>>
  /\ stagesUnchanged

\* processChanges for the paths of a settled burst
runPass(changedFiles) ==
  /\ alive /\ watcher /\ ~activeRebuild /\ run.kind = "none"
  /\ changedFiles /= {}
  /\ startRun
  /\ activeRebuild' = TRUE
  /\ SetStageState([StageState EXCEPT
       !.hits = [c \in Classes |-> "none"],
       !.html = IF needsPreHtml(changedFiles) \/ "html" \in tasksFor(changedFiles) THEN {} ELSE @])
  /\ run' = [kind |-> "pass",
             todo |-> tasksFor(changedFiles) \cup
                      (IF needsPreHtml(changedFiles) THEN {"preHtml"} ELSE {})]
  /\ UNCHANGED <<mtime, ranBefore, alive, watcher>>
  /\ stagesUnchanged

\* the stages of a run that may settle next: the processHtml call before the
\* try block comes first; the stages of a pipeline or of a try block run concurrently
mayRun(s) ==
  /\ s \in run.todo
  /\ "preHtml" \in run.todo => s = "preHtml"

\* one stage of the current run settles
runStage(s, ok) ==
  /\ alive /\ mayRun(s)
  /\ LET S == IF s = "preHtml" /\ ok /\ "html" \in run.todo
                THEN [stageEffect(s, StageState) EXCEPT !.html = {}]
                ELSE stageEffect(s, StageState)
         left == run.todo \ {s}
     IN IF ok
          THEN /\ SetStageState(S)
               /\ run' = IF left = {} THEN NoRun ELSE [run EXCEPT !.todo = left]
               /\ ranBefore' = (ranBefore \/ left = {})
               /\ watcher' = (watcher \/ (left = {} /\ run.kind = "build" /\ watchMode))
               /\ activeRebuild' = (activeRebuild /\ left /= {})
               /\ UNCHANGED <<alive, dirty, unchangedRun, prevOut>>
          ELSE /\ dirty' = TRUE
               /\ unchangedRun' = FALSE
               /\ prevOut' = {}
               /\ UNCHANGED <<cacheScripts, cacheStyles, cacheAssets, cacheHtml, outDir,
                              hits, ranBefore>>
               /\ IF run.kind = "build"
                    THEN /\ alive' = FALSE
                         /\ watcher' = FALSE
                         /\ esbuild' = "off"
                         /\ run' = NoRun
                         /\ UNCHANGED activeRebuild
                    ELSE /\ run' = IF left = {} \/ s = "preHtml" THEN NoRun
                                   ELSE [run EXCEPT !.todo = left]
                         /\ activeRebuild' = (activeRebuild /\ (left /= {} \/ s = "preHtml"))
                         /\ UNCHANGED <<alive, watcher, esbuild>>
  /\ UNCHANGED mtime
  /\ stagesUnchanged

NextStages ==
  \/ \E f \in SrcFiles : touch(f)
  \/ \E ok \in BOOLEAN : handleScriptsBuildEnd(ok)
  \/ \E ok \in BOOLEAN : runBuild(ok)
  \/ \E changedFiles \in SUBSET Watched : runPass(changedFiles)
  \/ \E s \in Stages \cup {"preHtml"}, ok \in BOOLEAN : runStage(s, ok)

SpecStages == InitStages /\ [][NextStages]_vars

\* ------------------------------------------- caching disabled (SpecCacheOff)
\* a Build and a JoltBundler configured with cache: false
InitCacheOff ==
  /\ cacheOn = FALSE
  /\ parallel = TRUE
  /\ watchMode \in BOOLEAN
  /\ InitWatchFields
  /\ impl = "core"
  /\ InitAuxFields
  /\ InitModuleFields
  /\ InitStageFields

\* Build and JoltBundler share no state: the process drives one of the two
NextCacheOff ==
  \/ InitStageFields /\ NextModules
  \/ InitModuleFields /\ NextStages

SpecCacheOff == InitCacheOff /\ [][NextCacheOff]_vars

\* --------------------------- style plug-in (SpecStyles, css-preprocessor.js)
\* a project with style files and no markup file, driven through the style
\* stage of plugins/css-preprocessor.js
InitStyles ==
  /\ cacheOn \in BOOLEAN
  /\ parallel = TRUE
  /\ watchMode = FALSE
  /\ InitWatchFields
  /\ impl = "core"
  /\ InitAuxFields
  /\ InitModuleFields
  /\ InitStageFields

\* globby(include): the style files that exist
allCssFiles(src) == {f \in StyleFiles : src[f] /= 0}

\* filesContent: what fs.readFile returns for each of them
filesContent(src) == {<<f, src[f]>> : f \in allCssFiles(src)}

\* the files named styles-*.css in the output directory
styleBundles(out) == {f \in out : f.name.base = "styles" /\ f.name.ext = "css"}

stylesUnchanged ==
  UNCHANGED <<moduleVars, lifecycleVars, auxVars, watchVars, cacheOn, mtime, cacheScripts, cacheAssets, run,
              unchangedRun, prevOut, dirty, esbuild, ranBefore>>

\* a style file is created, edited (also back to an earlier content) or deleted
editStyle(f, content) ==
  /\ content /= styleSrc[f]
  /\ styleSrc' = [styleSrc EXCEPT ![f] = content]
  /\ UNCHANGED <<cacheStyles, cacheHtml, outDir, hits>>
  /\ stylesUnchanged

\* processStyles of the plug-in; fail names the step that throws, if any
pluginProcessStyles(fail) ==
  LET cssFiles == allCssFiles(styleSrc)
      cacheKey == {StyleBase[f] : f \in cssFiles}
      contentHash == digest8(filesContent(styleSrc))
      outputFile == OutName("styles", {contentHash}, "css")
      known == {e \in cacheStyles : e.key = cacheKey}
      stale == {e.outputFile : e \in {k \in known : k.outputFile /= outputFile}}
      unlinked == {f \in outDir : f.name \notin stale}
      written == writeFile(unlinked, outputFile, OutData(filesContent(styleSrc), {}, {}))
      S == [StageState EXCEPT !.out = written]
      T == IF cacheHtml /= {} THEN processHtml([S EXCEPT !.html = {}]) ELSE S
  IN /\ IF cssFiles = {}
          THEN UNCHANGED <<cacheStyles, cacheHtml, outDir, hits>>
          ELSE IF cacheOn /\ \E e \in known : e.hash = contentHash
            THEN /\ hits' = [hits EXCEPT !["styles"] = "hit"]
                 /\ UNCHANGED <<cacheStyles, cacheHtml, outDir>>
          ELSE IF fail = "compile"
            THEN /\ hits' = [hits EXCEPT !["styles"] = "none"]
                 /\ UNCHANGED <<cacheStyles, cacheHtml, outDir>>
          ELSE IF fail = "write"
            THEN /\ outDir' = unlinked
                 /\ hits' = [hits EXCEPT !["styles"] = "none"]
                 /\ UNCHANGED <<cacheStyles, cacheHtml>>
          ELSE /\ outDir' = T.out
               /\ cacheHtml' = T.html
               /\ cacheStyles' = cacheSet(cacheStyles, [key |-> cacheKey, hash |-> contentHash,
                                                        outputFile |-> outputFile])
               /\ hits' = [hits EXCEPT !["styles"] = "miss"]
     /\ UNCHANGED styleSrc
     /\ stylesUnchanged

NextStyles ==
  \/ \E f \in StyleFiles, content \in 0..MaxContent : editStyle(f, content)
  \/ \E fail \in {"none", "compile", "write"} : pluginProcessStyles(fail)

SpecStyles == InitStyles /\ [][NextStyles]_vars

\* ------------------------------------------ asset stage alone (SpecAssets)
\* a bundler whose rebuild passes run the asset stage
InitAssets ==
  /\ cacheOn \in BOOLEAN
  /\ parallel = TRUE
  /\ watchMode = TRUE
  /\ InitWatchFields
  /\ impl = "core"
  /\ InitAuxFields
  /\ InitModuleFields
  /\ InitStageFields

\* a rebuild pass whose only task is processAssets; a failing pass throws
\* before any file is written
assetsPass(ok) ==
  /\ alive
  /\ IF ok
       THEN /\ SetStageState(processAssets([StageState EXCEPT !.hits = [c \in Classes |-> "none"]]))
            /\ dirty' = FALSE
       ELSE /\ hits' = [c \in Classes |-> "none"]
            /\ UNCHANGED <<cacheScripts, cacheStyles, cacheAssets, cacheHtml, outDir, esbuild, dirty>>
  /\ UNCHANGED <<mtime, run, unchangedRun, prevOut, ranBefore, alive, watcher, activeRebuild>>
  /\ stagesUnchanged

NextAssets ==
  \/ \E f \in AssetFiles \cup FontFiles : touch(f)
  \/ \E ok \in BOOLEAN : assetsPass(ok)

SpecAssets == InitAssets /\ [][NextAssets]_vars

\* ------------------------------------- buildDependencyGraph (SpecGraph)
\* a Build for the entry a.js over a project of four module files
InitGraph ==
  /\ cacheOn \in BOOLEAN
  /\ parallel = TRUE
  /\ watchMode = FALSE
  /\ InitWatchFields
  /\ impl = "core"
  /\ InitAuxFields
  /\ InitStageFields
  /\ disk = [m \in GraphModules |-> 1]
  /\ hashCache = [m \in GraphModules |-> {}]
  /\ graph = [m \in GraphModules |-> {}]
  /\ calls = {}
  /\ lastCall = NoCall
  /\ InitTravFields
  /\ InitBundleFields

\* the orders in which the elements of a set can be listed
orderingsOf(S) ==
  {q \in UNION {[1..n -> S] : n \in {Cardinality(S)}} : \A x \in S : \E i \in DOMAIN q : q[i] = x}

\* a traversal that never finds a path in the visited set
alreadyVisitedNever(vis, current) == FALSE

\* visited.has(current)
alreadyVisited(vis, current) == current \in vis

\* the dependencies of the node processFile returned
dependenciesOf(node) == UNION {n.dependencies : n \in node}

graphUnchanged == UNCHANGED <<cacheOn, watchVars, stageVars, lifecycleVars, auxVars, bundleVars>>

\* a module file is edited while the Build exists; content 0 does not transpile
editModule(m, content) ==
  /\ editCount < MaxEdits
  /\ editFile(m, content)
  /\ editCount' = editCount + 1
  /\ stable' = FALSE
  /\ UNCHANGED <<bpc, queue, visited, processed, modulesOut, outcome, bundleWritten>>

\* Build.build() is called and reaches the loop of buildDependencyGraph
startBuild ==
  /\ bpc \in {"idle", "done"}
  /\ bpc' = "traverse"
  /\ queue' = <<graphEntry>>
  /\ visited' = {}
  /\ processed' = [m \in GraphModules |-> 0]
  /\ modulesOut' = {}
  /\ outcome' = "none"
  /\ bundleWritten' = FALSE
  /\ stable' = TRUE
  /\ UNCHANGED <<disk, hashCache, graph, calls, lastCall, editCount>>
  /\ graphUnchanged

\* one turn of the while loop up to the end of needsRebuild inside processFile
traverseStep ==
  /\ bpc = "traverse" /\ queue /= <<>>
  /\ LET current == queue[Len(queue)]
         rest == SubSeq(queue, 1, Len(queue) - 1)
     IN IF alreadyVisited(visited, current)
          THEN /\ queue' = rest
               /\ UNCHANGED <<bpc, visited, processed, disk, hashCache, graph, calls, lastCall>>
               /\ graphUnchanged
          ELSE /\ visited' = visited \cup {current}
               /\ processed' = [processed EXCEPT ![current] = IF @ < 2 THEN @ + 1 ELSE @]
               /\ processFile(1, current)
               /\ IF calls' /= calls
                    THEN /\ bpc' = "await"
                         /\ queue' = rest
                    ELSE /\ bpc' = "traverse"
                         /\ \E deps \in orderingsOf(dependenciesOf(lastCall'.node)) :
                              queue' = rest \o deps
  /\ UNCHANGED <<modulesOut, outcome, bundleWritten, stable, editCount>>

\* the rest of processFile for the path being awaited; text that does not
\* transpile makes transform throw; a throw rejects buildDependencyGraph and
\* Build.build() returns success: false
traverseFinish(c, fail) ==
  /\ bpc = "await"
  /\ disk[c.info.path] = 0 => fail /= "none"
  /\ finishProcessFile(c, fail)
  /\ IF fail = "none"
       THEN /\ bpc' = "traverse"
            /\ \E deps \in orderingsOf(dependenciesOf(lastCall'.node)) : queue' = queue \o deps
            /\ UNCHANGED outcome
       ELSE /\ bpc' = "done"
            /\ outcome' = "failure"
            /\ UNCHANGED queue
  /\ UNCHANGED <<visited, processed, modulesOut, bundleWritten, stable, editCount>>

\* the loop ends: return [...visited].map(f => graph.get(f))
traverseReturn ==
  /\ bpc = "traverse" /\ queue = <<>>
  /\ modulesOut' = {<<f, graph[f]>> : f \in visited}
  /\ bpc' = "bundle"
  /\ UNCHANGED <<disk, hashCache, graph, calls, lastCall, queue, visited, processed, outcome,
                 bundleWritten, stable, editCount>>
  /\ graphUnchanged

\* generateIIFEBundle and writeOutput: an undefined entry of modules makes the
\* generator throw; writeOutput can fail
writeBundle(ok) ==
  /\ bpc = "bundle"
  /\ bpc' = "done"
  /\ IF ok /\ \A pair \in modulesOut : pair[2] /= {}
       THEN /\ bundleWritten' = TRUE
            /\ outcome' = "success"
       ELSE /\ outcome' = "failure"
            /\ UNCHANGED bundleWritten
  /\ UNCHANGED <<disk, hashCache, graph, calls, lastCall, queue, visited, processed, modulesOut,
                 stable, editCount>>
  /\ graphUnchanged

travSteps ==
  \/ traverseStep
  \/ \E c \in calls, fail \in {"none", "read", "transform", "resolve"} : traverseFinish(c, fail)
  \/ traverseReturn
  \/ \E ok \in BOOLEAN : writeBundle(ok)

NextGraph ==
  \/ \E m \in GraphModules, content \in 0..MaxContent : editModule(m, content)
  \/ startBuild
  \/ travSteps

\* the event loop keeps running the build that was started
SpecGraph == InitGraph /\ [][NextGraph]_vars /\ WF_vars(travSteps)

\* ------------------------------------------ the IIFE bundle (SpecBundle)
RECURSIVE resolveDir(_, _)
\* path.resolve(baseDir, ...): '..' drops the last segment, a name adds one
resolveDir(base, segs) ==
  IF segs = <<>> THEN base
  ELSE IF Head(segs) = ".."
         THEN resolveDir(IF base = <<>> THEN <<>> ELSE SubSeq(base, 1, Len(base) - 1), Tail(segs))
         ELSE resolveDir(Append(base, Head(segs)), Tail(segs))

RECURSIVE firstExisting(_)
\* the first candidate that fs.access accepts
firstExisting(candidates) ==
  IF candidates = <<>> THEN {}
  ELSE IF Head(candidates) /= {} THEN Head(candidates) ELSE firstExisting(Tail(candidates))

\* resolvePath: the candidate with each of the extensions '.js', '.jsx',
\* '.ts', '.tsx', '.json', '' appended, in this order; empty when it throws.
\* The project has no file named x.js.js and no index file, so a specifier
\* that carries an extension only matches with '' appended.
resolvePath(baseDir, modulePath) ==
  LET d == resolveDir(baseDir, modulePath.dir)
      at(x) == {f \in BundleFiles : f.dir = d /\ f.name = modulePath.name /\ f.ext = x}
      extensions == <<"js", "jsx", "ts", "tsx", "json">>
  IN IF modulePath.ext /= "" THEN at(modulePath.ext)
     ELSE firstExisting([i \in 1..Len(extensions) |-> at(extensions[i])])

RECURSIVE relativeDir(_, _)
\* path.relative(from, to) for directories
relativeDir(from, to) ==
  IF from /= <<>> /\ to /= <<>> /\ Head(from) = Head(to)
    THEN relativeDir(Tail(from), Tail(to))
    ELSE [i \in 1..Len(from) |-> ".."] \o to

\* normalizeModuleId: './' + the path relative to baseDir, with a trailing
\* .js, .jsx, .ts or .tsx removed
normalizeModuleId(filePath, baseDir) ==
  Specifier("./", relativeDir(baseDir, filePath.dir), filePath.name,
            IF filePath.ext \in {"js", "jsx", "ts", "tsx"} THEN "" ELSE filePath.ext)

\* the files a module's record lists as dependencies
depsOfFile(f) == UNION {resolvePath(dirname(f), dep) : dep \in modCode[f]}

RECURSIVE bundleClosure(_, _)
\* the modules buildDependencyGraph returns for the entry
bundleClosure(frontier, seen) ==
  IF frontier \subseteq seen THEN seen
  ELSE LET f == CHOOSE x \in frontier \ seen : TRUE
       IN bundleClosure((frontier \ {f}) \cup depsOfFile(f), seen \cup {f})

bundled == bundleClosure({entryPath}, {})

\* modules.get(moduleId), empty when modules.has(moduleId) is false
modulesGet(moduleId) == {q[2] : q \in {r \in modules : r[1] = moduleId}}

\* a require that leaves module.cache unset
setCacheNever(cache, moduleId) == cache

\* module.cache = { exports }, before the factory is called
setCache(cache, moduleId) == cache \cup {moduleId}

bundleUnchanged ==
  UNCHANGED <<cacheOn, watchVars, stageVars, lifecycleVars, auxVars, disk, hashCache, graph, calls, lastCall,
              bpc, queue, visited, processed, modulesOut, outcome, bundleWritten, stable,
              editCount, modCode>>

\* a project whose imports all resolve was built; the emitted bundle starts
InitBundle ==
  /\ cacheOn = TRUE
  /\ parallel = TRUE
  /\ watchMode = FALSE
  /\ InitWatchFields
  /\ impl = "core"
  /\ InitAuxFields
  /\ InitStageFields
  /\ disk = [m \in Modules |-> 1]
  /\ hashCache = [m \in Modules |-> {}]
  /\ graph = [m \in Modules |-> {}]
  /\ calls = {}
  /\ lastCall = NoCall
  /\ InitTravFields
  /\ \E ca \in SUBSET SpecifiersOf(fileA), cb \in SUBSET SpecifiersOf(fileB),
        cd \in SUBSET SpecifiersOf(fileD) :
       modCode = [f \in BundleFiles |->
                    IF f = fileA THEN ca ELSE IF f = fileB THEN cb
                    ELSE IF f = fileD THEN cd ELSE {}]
  /\ modules = {}
  /\ moduleCache = {}
  /\ factoryRuns = [f \in BundleFiles |-> 0]
  /\ stack = <<>>
  /\ rpc = "register"

\* modules.set('<id>', { factory }) for one module of moduleMap
registerModule(f) ==
  /\ rpc = "register"
  /\ f \in bundled
  /\ \A q \in modules : q[2] /= f
  /\ LET id == normalizeModuleId(f, dirname(entryPath))
     IN modules' = {q \in modules : q[1] /= id} \cup {<<id, f>>}
  /\ UNCHANGED <<moduleCache, factoryRuns, stack, rpc>>
  /\ bundleUnchanged

\* the emitted require(moduleId), called with stk as the callers' frames
require(stk, moduleId) ==
  IF modulesGet(moduleId) = {}
    THEN \* throw new Error('Module not found: ' + moduleId): the bundle ends
         /\ rpc' = "threw"
         /\ stack' = <<>>
         /\ UNCHANGED <<moduleCache, factoryRuns>>
    ELSE IF moduleId \in moduleCache
           THEN \* return module.cache.exports
                /\ stack' = stk
                /\ rpc' = "run"
                /\ UNCHANGED <<moduleCache, factoryRuns>>
           ELSE \E f \in modulesGet(moduleId) :
                  /\ moduleCache' = setCache(moduleCache, moduleId)
                  /\ factoryRuns' = [factoryRuns EXCEPT ![f] = IF @ < 2 THEN @ + 1 ELSE @]
                  /\ stack' = Append(stk, [file |-> f, pending |-> modCode[f]])
                  /\ rpc' = "run"

\* require('<entryId>'), the last statement of the bundle
requireEntry ==
  /\ rpc = "register"
  /\ \A f \in bundled : \E q \in modules : q[2] = f
  /\ require(<<>>, normalizeModuleId(entryPath, dirname(entryPath)))
  /\ UNCHANGED modules
  /\ bundleUnchanged

\* the factory being executed calls require with one of its specifiers
callRequire ==
  /\ rpc = "run"
  /\ stack /= <<>>
  /\ LET top == stack[Len(stack)]
     IN \E dep \in top.pending :
          require([stack EXCEPT ![Len(stack)].pending = @ \ {dep}], dep)
  /\ UNCHANGED modules
  /\ bundleUnchanged

\* the factory being executed returns
factoryReturn ==
  /\ rpc = "run"
  /\ stack /= <<>>
  /\ stack[Len(stack)].pending = {}
  /\ stack' = SubSeq(stack, 1, Len(stack) - 1)
  /\ rpc' = IF Len(stack) = 1 THEN "done" ELSE "run"
  /\ UNCHANGED <<modules, moduleCache, factoryRuns>>
  /\ bundleUnchanged

NextBundle ==
  \/ \E f \in BundleFiles : registerModule(f)
  \/ requireEntry
  \/ callRequire
  \/ factoryReturn

SpecBundle == InitBundle /\ [][NextBundle]_vars

\* ----------------------------------------------- stop() (SpecStop)
Impls == {"core", "plugins"}

\* a JoltBundler of either class, running the stages of a build
InitStop ==
  /\ cacheOn = TRUE
  /\ parallel = TRUE
  /\ watchMode = TRUE
  /\ impl \in Impls
  /\ InitAuxFields
  /\ InitLifecycleFields
  /\ alive = TRUE
  /\ watcher = FALSE
  /\ buildPc = "none"
  /\ seqIdx = 0
  /\ activeBuilds = {}
  /\ pendingQueue = <<>>
  /\ resubmitted = {}
  /\ pendingChanges = {}
  /\ debounceTimer = 0
  /\ armed = {}
  /\ eventCount = 0
  /\ activeRebuild = FALSE
  /\ passes = {}
  /\ leaked = [s \in Stages |-> 0]
  /\ lateAdds = {}
  /\ InitModuleFields
  /\ InitStageFields

stopUnchanged ==
  UNCHANGED <<cacheOn, moduleVars, auxVars, impl, parallel, watchMode, buildPc, seqIdx, activeBuilds,
              pendingQueue, resubmitted, pendingChanges, debounceTimer, armed, eventCount,
              activeRebuild, passes, leaked, lateAdds, mtime, outDir, run, hits, unchangedRun,
              prevOut, dirty, styleSrc, esbuild, ranBefore>>

cachesUnchanged == UNCHANGED <<cacheScripts, cacheStyles, cacheAssets, cacheHtml>>

\* #startWatcher: config.watcher is set to a new watcher
openWatcher ==
  /\ alive /\ stopPc = "idle" /\ stops = 0
  /\ ~watcher
  /\ watcher' = TRUE
  /\ watcherOpen' = TRUE
  /\ UNCHANGED <<alive, abortController, aborted, esbuildContext, contextOpen, stopPc,
                 stopCaller, stopContext, stops, stageAt, stageSignal, stagePhase, raised,
                 errorLogged>>
  /\ cachesUnchanged /\ stopUnchanged

\* #processScripts in watch mode: the esbuild context is created and kept
openContext ==
  /\ alive /\ stopPc = "idle" /\ stops = 0
  /\ esbuildContext = 0
  /\ esbuildContext' = 1
  /\ contextOpen' = TRUE
  /\ UNCHANGED <<alive, watcher, abortController, aborted, watcherOpen, stopPc, stopCaller,
                 stopContext, stops, stageAt, stageSignal, stagePhase, raised, errorLogged>>
  /\ cachesUnchanged /\ stopUnchanged

\* stop() is called; stopBuildProcess is handed the fields' current values
callStop(caller) ==
  /\ stopPc \in {"idle", "returned"}
  /\ stopPc' = "called"
  /\ stopCaller' = caller
  /\ stopContext' = esbuildContext
  /\ stops' = IF caller = "user" THEN stops + 1 ELSE stops
  /\ stagePhase' = [s \in AbortStages |->
                      IF stagePhase[s] \in {"current", "during"} THEN "before" ELSE stagePhase[s]]
  /\ UNCHANGED <<alive, watcher, abortController, aborted, esbuildContext, contextOpen,
                 watcherOpen, stageAt, stageSignal, raised, errorLogged>>
  /\ cachesUnchanged /\ stopUnchanged

\* the SIGINT handler of index.js
userStop ==
  /\ alive
  /\ stops < MaxStops
  /\ callStop("user")

\* the catch block of build(): a stage rejected, so the pipeline did
buildCatch ==
  /\ alive
  /\ stopCaller /= "build"
  /\ \E s \in AbortStages : stageAt[s] = "rejected"
  /\ callStop("build")

\* if (config.watcher) { await config.watcher.close(); config.watcher = null }
stopWatcher ==
  /\ alive /\ stopPc = "called"
  /\ stopPc' = "watcherDone"
  /\ watcher' = FALSE
  /\ watcherOpen' = IF watcher THEN FALSE ELSE watcherOpen
  /\ UNCHANGED <<alive, abortController, aborted, esbuildContext, contextOpen, stopCaller,
                 stopContext, stops, stageAt, stageSignal, stagePhase, raised, errorLogged>>
  /\ cachesUnchanged /\ stopUnchanged

\* if (context) { await context.dispose(); context = null }: core's stop()
\* tests and clears the field, stopBuildProcess its own parameter
stopDispose ==
  /\ alive /\ stopPc = "watcherDone"
  /\ stopPc' = "disposed"
  /\ LET context == IF impl = "core" THEN esbuildContext ELSE stopContext
     IN /\ contextOpen' = IF context /= 0 THEN FALSE ELSE contextOpen
        /\ esbuildContext' = IF impl = "core" THEN 0 ELSE esbuildContext
        /\ stopContext' = 0
  /\ UNCHANGED <<alive, watcher, abortController, aborted, watcherOpen, stopCaller, stops,
                 stageAt, stageSignal, stagePhase, raised, errorLogged>>
  /\ cachesUnchanged /\ stopUnchanged

\* abortController = new AbortController(): core's stop() assigns the field;
\* stopBuildProcess assigns its parameter and stop() drops the returned object
renewController(which, controller) ==
  IF which = "core" THEN controller + 1 ELSE controller

\* abort(), the new controller, the caches cleared; stop() returns, and
\* build()'s catch goes on to Logger.error and process.exit(1)
stopFinish ==
  /\ alive /\ stopPc = "disposed"
  /\ stopPc' = "returned"
  /\ aborted' = aborted \cup {abortController}
  /\ abortController' = renewController(impl, abortController)
  /\ cacheScripts' = {}
  /\ cacheStyles' = {}
  /\ cacheAssets' = {}
  /\ cacheHtml' = {}
  /\ errorLogged' = (errorLogged \/ stopCaller = "build")
  /\ alive' = (stopCaller /= "build")
  /\ UNCHANGED <<watcher, esbuildContext, contextOpen, watcherOpen, stopCaller, stopContext,
                 stops, stageAt, stageSignal, stagePhase, raised>>
  /\ stopUnchanged

\* a stage is run: its first statement hands this.#abortController.signal
\* to globby
startStage(s) ==
  /\ alive
  /\ stageAt[s] = "idle"
  /\ stageAt' = [stageAt EXCEPT ![s] = "glob"]
  /\ stageSignal' = [stageSignal EXCEPT ![s] = abortController]
  /\ stagePhase' = [stagePhase EXCEPT
                      ![s] = IF stopPc \in {"idle", "returned"} THEN "current" ELSE "during"]
  /\ UNCHANGED <<alive, watcher, abortController, aborted, esbuildContext, contextOpen,
                 watcherOpen, stopPc, stopCaller, stopContext, stops, raised, errorLogged>>
  /\ cachesUnchanged /\ stopUnchanged

\* the globby call settles: with its signal aborted it rejects with an
\* AbortError, and the call is outside the stage's try block
globSettles(s) ==
  /\ alive
  /\ stageAt[s] = "glob"
  /\ IF stageSignal[s] \in aborted
       THEN /\ raised' = [raised EXCEPT ![s] = "AbortError"]
            /\ stageAt' = [stageAt EXCEPT ![s] = "rejected"]
       ELSE /\ stageAt' = [stageAt EXCEPT ![s] = "body"]
            /\ UNCHANGED raised
  /\ UNCHANGED <<alive, watcher, abortController, aborted, esbuildContext, contextOpen,
                 watcherOpen, stopPc, stopCaller, stopContext, stops, stageSignal, stagePhase,
                 errorLogged>>
  /\ cachesUnchanged /\ stopUnchanged

\* the try block of the stage (of #processSingleAsset for the asset stage)
\* ends: catch (error) { if (error.name !== 'AbortError') { Logger.error; throw } }
bodySettles(s, error) ==
  /\ alive
  /\ stageAt[s] = "body"
  /\ error = "AbortError" => stageSignal[s] \in aborted
  /\ raised' = [raised EXCEPT ![s] = error]
  /\ stageAt' = [stageAt EXCEPT ![s] = IF error \in {"none", "AbortError"}
                                         THEN "resolved" ELSE "rejected"]
  /\ errorLogged' = (errorLogged \/ error \notin {"none", "AbortError"})
  /\ UNCHANGED <<alive, watcher, abortController, aborted, esbuildContext, contextOpen,
                 watcherOpen, stopPc, stopCaller, stopContext, stops, stageSignal, stagePhase>>
  /\ cachesUnchanged /\ stopUnchanged

NextStop ==
  \/ openWatcher
  \/ openContext
  \/ userStop
  \/ buildCatch
  \/ stopWatcher
  \/ stopDispose
  \/ stopFinish
  \/ \E s \in AbortStages : startStage(s)
  \/ \E s \in AbortStages : globSettles(s)
  \/ \E s \in AbortStages, error \in {"none", "AbortError", "Error"} : bodySettles(s, error)

SpecStop == InitStop /\ [][NextStop]_vars

\* ------------------------------- optional collaborators (SpecOptional)
\* a production build: images are re-encoded, fonts subset, markup minified
InitOptional ==
  /\ cacheOn \in BOOLEAN
  /\ parallel = TRUE
  /\ watchMode = FALSE
  /\ InitWatchFields
  /\ impl = "core"
  /\ InitAuxFields
  /\ InitModuleFields
  /\ InitStageFields

optUnchanged ==
  UNCHANGED <<cacheOn, watchVars, moduleVars, stageVars, lifecycleVars, markupVars, watcherVars,
              pathVars, pluginVars>>

\* what the code around a failed collaborator does: #optimizeSvg and
\* #subsetFont warn and write the original bytes; #optimizeImage logs an
\* error and rethrows, and #processSingleAsset's catch logs and rethrows
\* again; the catch of #processSingleHtml logs the minifier's error and rethrows
afterFailure(collaborator) ==
  IF collaborator \in {"svgo", "subset-font"}
    THEN [out |-> "original", log |-> {"warn"}, thrown |-> FALSE]
    ELSE [out |-> "failed", log |-> {"error"}, thrown |-> TRUE]

\* #processAssets or #processHtml is started by the pipeline
startOptStage(s) ==
  /\ optStage[s] = "idle"
  /\ optStage' = [optStage EXCEPT ![s] = "running"]
  /\ UNCHANGED <<optOut, logged, cssParts, cssReadable, cssResult, cssPc>>
  /\ optUnchanged

\* one file of the stage's Promise.all is processed; ok: its collaborator
\* succeeded. A rejection rejects the stage; the other files go on.
optimiseFile(f, ok) ==
  /\ optStage[OwnerStage[f]] \in {"running", "rejected"}
  /\ optOut[f] = "none"
  /\ LET r == IF ok THEN [out |-> "optimised", log |-> {}, thrown |-> FALSE]
              ELSE afterFailure(Collaborator[f])
     IN /\ optOut' = [optOut EXCEPT ![f] = r.out]
        /\ logged' = logged \cup r.log
        /\ optStage' = IF r.thrown THEN [optStage EXCEPT ![OwnerStage[f]] = "rejected"]
                       ELSE optStage
  /\ UNCHANGED <<cssParts, cssReadable, cssResult, cssPc>>
  /\ optUnchanged

\* every file of the stage is settled and none rejected: the stage resolves
finishOptStage(s) ==
  /\ optStage[s] = "running"
  /\ \A f \in OptFiles : OwnerStage[f] = s => optOut[f] \in {"optimised", "original"}
  /\ optStage' = [optStage EXCEPT ![s] = "resolved"]
  /\ UNCHANGED <<optOut, logged, cssParts, cssReadable, cssResult, cssPc>>
  /\ optUnchanged

NextOptional ==
  \/ \E s \in OptStages : startOptStage(s)
  \/ \E f \in OptFiles, ok \in BOOLEAN : optimiseFile(f, ok)
  \/ \E s \in OptStages : finishOptStage(s)

SpecOptional == InitOptional /\ [][NextOptional]_vars

\* ------------------------------------------ resolveImports (SpecImports)
\* a piece of a style file: a text of the file named, or an @import rule
\* naming its target
TextOf(file) == [kind |-> "text", name |-> file]

ImportOf(target) == [kind |-> "import", name |-> target]

\* the files an @import rule may name: p.css imports q.css
CssTargets == {"p", "q"}

FileParts(file) ==
  IF file = "p" THEN <<TextOf("p"), ImportOf("q")>> ELSE <<TextOf("q")>>

\* the style files of at most MaxParts pieces
StyleSources ==
  UNION {[1..n -> {TextOf("main")} \cup {ImportOf(t) : t \in CssTargets}] : n \in 0..MaxParts}

RECURSIVE resolveImports(_, _)
\* resolveImports: each @import rule is replaced by the resolved content of
\* its target, or by empty text when fs.readFile throws
resolveImports(cssContent, readable) ==
  IF cssContent = <<>> THEN <<>>
  ELSE LET part == Head(cssContent)
           resolved == IF part.kind = "text" THEN <<part>>
                       ELSE IF part.name \in readable
                              THEN resolveImports(FileParts(part.name), readable)
                              ELSE <<>>
       IN resolved \o resolveImports(Tail(cssContent), readable)

RECURSIVE unreadableIn(_, _)
\* some fs.readFile of the resolution threw
unreadableIn(cssContent, readable) ==
  IF cssContent = <<>> THEN FALSE
  ELSE LET part == Head(cssContent)
       IN \/ part.kind = "import" /\ part.name \notin readable
          \/ part.kind = "import" /\ part.name \in readable
               /\ unreadableIn(FileParts(part.name), readable)
          \/ unreadableIn(Tail(cssContent), readable)

\* a resolution that stays silent about an unreadable target
warnOnUnreadableNever(threw) == {}

\* catch { Logger.warn(`Could not resolve @import ...`); return '' }
warnOnUnreadable(threw) == IF threw THEN {"warn"} ELSE {}

\* a style file whose imports may name files that cannot be read
InitImports ==
  /\ cacheOn \in BOOLEAN
  /\ parallel = TRUE
  /\ watchMode = FALSE
  /\ InitWatchFields
  /\ impl = "core"
  /\ InitModuleFields
  /\ InitStageFields
  /\ InitMarkupFields
  /\ InitWatcherFields
  /\ InitPluginFields
  /\ InitPathFields
  /\ optOut = [f \in OptFiles |-> "none"]
  /\ optStage = [s \in OptStages |-> "idle"]
  /\ logged = {}
  /\ cssParts \in StyleSources
  /\ cssReadable \in SUBSET CssTargets
  /\ cssResult = <<>>
  /\ cssPc = "idle"

\* #processSingleCssFile up to the preprocessor: the file's imports are resolved
resolveStyle ==
  /\ cssPc = "idle"
  /\ cssResult' = resolveImports(cssParts, cssReadable)
  /\ logged' = logged \cup warnOnUnreadable(unreadableIn(cssParts, cssReadable))
  /\ cssPc' = "resolved"
  /\ UNCHANGED <<optOut, optStage, cssParts, cssReadable>>
  /\ optUnchanged

\* the rest of the style stage: the preprocessor and postcss run and the
\* bundle is written; ok: the preprocessor accepted the resolved text
writeStyle(ok) ==
  /\ cssPc = "resolved"
  /\ cssPc' = IF ok THEN "written" ELSE "rejected"
  /\ logged' = IF ok THEN logged ELSE logged \cup {"error"}
  /\ UNCHANGED <<optOut, optStage, cssParts, cssReadable, cssResult>>
  /\ optUnchanged

NextImports ==
  \/ resolveStyle
  \/ \E ok \in BOOLEAN : writeStyle(ok)

SpecImports == InitImports /\ [][NextImports]_vars

\* ------------------------------ the markup cache in watch mode (SpecMarkup)
\* a JoltBundler in watch mode after its first build: the rebuild passes, the
\* stage executions they start and what each does to #cache.html
InitMarkup ==
  /\ cacheOn = TRUE
  /\ parallel = TRUE
  /\ watchMode = TRUE
  /\ InitWatchFields
  /\ impl = "core"
  /\ InitAuxFields
  /\ InitModuleFields
  /\ InitStageFields

markupUnchanged ==
  UNCHANGED <<cacheOn, moduleVars, lifecycleVars, optVars, watcherVars, pathVars, pluginVars, alive, parallel, watchMode, watcher,
              buildPc, seqIdx, activeBuilds, pendingQueue, resubmitted, debounceTimer, armed,
              eventCount, passes, leaked, lateAdds, cacheScripts, cacheStyles, cacheAssets,
              outDir, run, hits, unchangedRun, prevOut, dirty, styleSrc, esbuild, ranBefore>>

\* the watch loop, the markup cache and the executions in flight as one value
MarkupState ==
  [rebuild |-> rebuild, execs |-> execs, html |-> cacheHtml,
   pendingChanges |-> pendingChanges, activeRebuild |-> activeRebuild]

SetMarkupState(M) ==
  /\ rebuild' = M.rebuild
  /\ execs' = M.execs
  /\ cacheHtml' = M.html
  /\ pendingChanges' = M.pendingChanges
  /\ activeRebuild' = M.activeRebuild

\* a stage execution started by a pass; processScripts creates an esbuild
\* context whose on-end plugin calls handleScriptsBuildEnd when the build ends
Exec(s, owner) ==
  [stage |-> s, owner |-> owner, pc |-> IF s = "html" THEN "glob" ELSE "run", stat |-> 0]

\* the try block of processChanges: the stages of the batch are started, the
\* markup cache is cleared before processHtml is called; processScripts
\* disposes of the esbuild context it finds before it creates its own
passTry(M) ==
  LET tasks == tasksFor(M.rebuild.changed)
      started == {Exec(s, "try") : s \in tasks} \cup
                 (IF "scripts" \in tasks THEN {Exec("onEnd", "esbuild")} ELSE {})
  IN [M EXCEPT !.rebuild.pc = "try",
               !.html = IF "html" \in tasks THEN {} ELSE @,
               !.execs = {e \in @ : e.stage /= "onEnd" \/ "scripts" \notin tasks} \cup started]

\* processChanges past its guard: the batch is drained; a batch with a script
\* or markup file clears the markup cache and awaits processHtml before the try block
passBegin(M) ==
  LET changedFiles == M.pendingChanges
      N == [M EXCEPT !.activeRebuild = TRUE,
                     !.pendingChanges = {},
                     !.rebuild = [pc |-> "pre", changed |-> changedFiles]]
  IN IF needsPreHtml(changedFiles)
       THEN [N EXCEPT !.html = {}, !.execs = @ \cup {Exec("html", "pre")}]
       ELSE passTry(N)

\* the finally block: the flag is reset and processChanges is called again
\* when paths are pending
passFinally(M) ==
  LET N == [M EXCEPT !.activeRebuild = FALSE, !.rebuild = [pc |-> "idle", changed |-> {}]]
  IN IF M.pendingChanges /= {} THEN passBegin(N) ELSE N

\* an execution settles: the awaited processHtml resolves into the try block
\* and rejects out of processChanges; Promise.all resolves with its last stage
\* and rejects with its first failure, the other stages running on
settle(M, e, ok) ==
  LET rest == M.execs \ {e}
      N == [M EXCEPT !.execs = rest]
  IN CASE e.owner = "pre" ->
            IF ok THEN passTry(N) ELSE [N EXCEPT !.rebuild.pc = "rejected"]
       [] e.owner = "try" ->
            IF ~ok
              THEN passFinally([N EXCEPT !.execs =
                     {IF x.owner = "try" THEN [x EXCEPT !.owner = "leaked"] ELSE x : x \in rest}])
            ELSE IF \E x \in rest : x.owner = "try" THEN N
            ELSE passFinally(N)
       [] OTHER -> N

\* the executions of the current pass that a rejection would leave running
\* are not already running as leftovers of an earlier pass
leakBounded(e) ==
  \A x \in execs \ {e} : x.owner = "try" =>
     ~\E y \in execs : y.owner = "leaked" /\ y.stage = x.stage

\* a watched file is saved: handleChange adds its path to pendingChanges
fileSaved(f) ==
  /\ editsOf(SrcFiles, mtime) < MaxEdits
  /\ mtime' = [mtime EXCEPT ![f] = @ + 1]
  /\ pendingChanges' = pendingChanges \cup {f}
  /\ UNCHANGED <<rebuild, execs, cacheHtml, activeRebuild, served, mutators>>
  /\ markupUnchanged

\* the debounce timer fires: processChanges
startRebuild ==
  /\ ~rebuildGuard(activeRebuild, pendingChanges)
  /\ SetMarkupState(passBegin(MarkupState))
  /\ UNCHANGED <<mtime, served, mutators>>
  /\ markupUnchanged

\* #processSingleHtml up to its cache check: fs.stat, then the cached markup
\* is written out on a hit
htmlCheck(e) ==
  /\ e \in execs /\ e.stage = "html" /\ e.pc = "glob"
  /\ LET file == CHOOSE f \in HtmlFiles : TRUE
         currentMtime == mtime[file]
     IN IF cacheHit(cacheOn, cacheHtml, SrcBase[file], currentMtime)
          THEN /\ SetMarkupState(settle(MarkupState, e, TRUE))
               /\ served' = IF e.owner = "leaked" THEN served
                            ELSE served \cup {rebuild.changed}
          ELSE /\ execs' = (execs \ {e}) \cup {[e EXCEPT !.pc = "miss", !.stat = currentMtime]}
               /\ UNCHANGED <<rebuild, cacheHtml, pendingChanges, activeRebuild, served>>
  /\ UNCHANGED <<mtime, mutators>>
  /\ markupUnchanged

\* #processSingleHtml after a miss: the markup is written and cache.html.set
htmlStore(e) ==
  /\ e \in execs /\ e.stage = "html" /\ e.pc = "miss"
  /\ LET file == CHOOSE f \in HtmlFiles : TRUE
         item == [key |-> SrcBase[file], mtime |-> e.stat, html |-> OutData(e.stat, {}, {})]
     IN SetMarkupState(settle([MarkupState EXCEPT !.html = cacheSet(@, item)], e, TRUE))
  /\ UNCHANGED <<mtime, served, mutators>>
  /\ markupUnchanged

\* processStyles or processScripts resolves
stageResolves(e) ==
  /\ e \in execs /\ e.stage \in Stages \ {"html"}
  /\ SetMarkupState(settle(MarkupState, e, TRUE))
  /\ UNCHANGED <<mtime, served, mutators>>
  /\ markupUnchanged

\* a stage rethrows the error of one of its operations
stageRejects(e) ==
  /\ e \in execs /\ e.stage \in Stages
  /\ e.owner = "try" => leakBounded(e)
  /\ SetMarkupState(settle(MarkupState, e, FALSE))
  /\ UNCHANGED <<mtime, served, mutators>>
  /\ markupUnchanged

\* esbuild ends the build of the context processScripts created: the on-end
\* plugin runs #handleScriptsBuildEnd, which clears the markup cache unless
\* the result has errors
scriptsBuildEnd(e, ok) ==
  /\ e \in execs /\ e.stage = "onEnd"
  /\ execs' = execs \ {e}
  /\ cacheHtml' = IF ok THEN {} ELSE cacheHtml
  /\ mutators' = IF ok /\ \E x \in execs : x.stage = "html" /\ x.owner /= "leaked"
                   THEN mutators \cup {"handleScriptsBuildEnd"}
                   ELSE mutators
  /\ UNCHANGED <<mtime, rebuild, pendingChanges, activeRebuild, served>>
  /\ markupUnchanged

NextMarkup ==
  \/ \E f \in Watched : fileSaved(f)
  \/ startRebuild
  \/ \E e \in execs : htmlCheck(e)
  \/ \E e \in execs : htmlStore(e)
  \/ \E e \in execs : stageResolves(e)
  \/ \E e \in execs : stageRejects(e)
  \/ \E e \in execs, ok \in BOOLEAN : scriptsBuildEnd(e, ok)

SpecMarkup == InitMarkup /\ [][NextMarkup]_vars


\* ------------------------------------- the Watcher class (SpecWatcher)
\* core/watch.js: chokidar hands add, change and unlink events to
\* handleFileChange, whose timer runs Bundler.run over the whole project
InitWatcher ==
  /\ cacheOn = TRUE
  /\ parallel = TRUE
  /\ watchMode = TRUE
  /\ InitWatchFields
  /\ impl = "core"
  /\ InitAuxFields
  /\ InitModuleFields
  /\ InitStageFields

watcherUnchanged ==
  UNCHANGED <<cacheOn, watchVars, moduleVars, stageVars, lifecycleVars, optVars, markupVars,
              pathVars, pluginVars>>

\* the events chokidar reports and the paths of config.watchPatterns
FileEvents == {"add", "change", "remove"}
WatchedPaths == {"src/main.js", "src/util.js"}

\* handleFileChange(event, path)
handleFileChange(event, path) ==
  /\ fileEvents < MaxEvents
  /\ fileEvents' = fileEvents + 1
  /\ IF isBuilding
       THEN /\ owed' = owed \cup {[id |-> fileEvents + 1, event |-> event, path |-> path]}
            /\ UNCHANGED <<rebuildTimeout, scheduled>>
       ELSE /\ scheduled' = {t \in scheduled : t.id \in clearTimeout({u.id : u \in scheduled},
                                                                    rebuildTimeout)}
                            \cup {[id |-> fileEvents + 1, event |-> event, path |-> path]}
            /\ rebuildTimeout' = fileEvents + 1
            /\ UNCHANGED owed
  /\ UNCHANGED <<isBuilding, building>>
  /\ watcherUnchanged

\* the timer set by handleFileChange fires: isBuilding is set and Bundler.run is awaited
rebuildFires(t) ==
  /\ t \in scheduled
  /\ scheduled' = scheduled \ {t}
  /\ isBuilding' = TRUE
  /\ building' = {<<t.event, t.path>>}
  /\ owed' = {}
  /\ UNCHANGED <<rebuildTimeout, fileEvents>>
  /\ watcherUnchanged

\* Bundler.run resolves (it catches every error of the build and returns
\* success: false): the finally block resets isBuilding
rebuildSettles ==
  /\ isBuilding
  /\ isBuilding' = FALSE
  /\ building' = {}
  /\ UNCHANGED <<rebuildTimeout, scheduled, fileEvents, owed>>
  /\ watcherUnchanged

NextWatcher ==
  \/ \E event \in FileEvents, path \in WatchedPaths : handleFileChange(event, path)
  \/ \E t \in scheduled : rebuildFires(t)
  \/ rebuildSettles

SpecWatcher == InitWatcher /\ [][NextWatcher]_vars


\* ------------------------------ the bundle's source map (SpecEntryMap)
\* Build.build() for one entry: buildDependencyGraph, then the generator of
\* the configured format is handed the records and the entry as configured
workDir == <<"work">>

\* a path as text: absolute or relative, and its segments
PathOf(abs, segs) == [abs |-> abs, segs |-> segs]

\* the forms in which the entry files src/a.js and src/b.js can be configured
EntryPaths ==
  {PathOf(FALSE, <<"src", n>>) : n \in {"a.js", "b.js"}} \cup
  {PathOf(FALSE, <<".", "src", n>>) : n \in {"a.js", "b.js"}} \cup
  {PathOf(TRUE, <<"work", "src", n>>) : n \in {"a.js", "b.js"}}

RECURSIVE normalize(_, _)
\* path.normalize on segments: '.' is dropped, '..' drops the segment before it
normalize(done, segs) ==
  IF segs = <<>> THEN done
  ELSE IF Head(segs) = "." THEN normalize(done, Tail(segs))
  ELSE IF Head(segs) = ".."
         THEN normalize(IF done = <<>> THEN <<>> ELSE SubSeq(done, 1, Len(done) - 1), Tail(segs))
  ELSE normalize(Append(done, Head(segs)), Tail(segs))

\* path.resolve(p): a relative path is taken from the working directory
pathResolve(p) ==
  PathOf(TRUE, normalize(<<>>, IF p.abs THEN p.segs ELSE workDir \o p.segs))

\* the record processFile builds for a file: its map is result.map, and null
\* for an external dependency
NodeOf(filePath, isExternal) ==
  [path |-> filePath, map |-> IF sourcemaps /\ ~isExternal THEN {<<"map", filePath>>} ELSE {}]

\* modules.find(m => m.path === entryPath)?.map
findMap(mods, entryP) ==
  LET found == {i \in 1..Len(mods) : mods[i].path = entryP}
  IN IF found = {} THEN {}
     ELSE mods[CHOOSE i \in found : \A j \in found : i <= j].map

generateIIFEBundle(mods, entryP) == [kind |-> "iife", map |-> findMap(mods, entryP)]

generateESBundle(mods, entryP) == [kind |-> "esm", map |-> findMap(mods, entryP)]

InitEntryMap ==
  /\ cacheOn = TRUE
  /\ parallel = TRUE
  /\ watchMode = FALSE
  /\ InitWatchFields
  /\ impl = "core"
  /\ InitOptFields
  /\ InitMarkupFields
  /\ InitWatcherFields
  /\ InitPluginFields
  /\ InitModuleFields
  /\ InitStageFields
  /\ configEntry \in EntryPaths
  /\ bundleFormat \in {"esm", "iife"}
  /\ sourcemaps \in BOOLEAN
  /\ graphRecords = <<>>
  /\ bundleOut = [kind |-> "none", map |-> {}]
  /\ accessible = {}
  /\ resolveCall = {}
  /\ resolveResult = [kind |-> "none", path |-> {}, message |-> {}]

pathUnchanged ==
  UNCHANGED <<cacheOn, watchVars, moduleVars, stageVars, lifecycleVars, optVars, markupVars,
              watcherVars, pluginVars>>

\* buildDependencyGraph(config, cache, graph, entry): the queue starts with
\* path.resolve(entryPath); the entry imports the files of others
graphReturns(others, withExternal) ==
  /\ graphRecords = <<>>
  /\ LET first == pathResolve(configEntry)
         more == others \ {first}
         rest == IF more = {} THEN <<>>
                 ELSE <<NodeOf(CHOOSE o \in more : TRUE, FALSE)>>
     IN graphRecords' = <<NodeOf(first, FALSE)>> \o rest \o
                        (IF withExternal THEN <<NodeOf(PathOf(TRUE, <<"work", "node_modules", "lodash">>), TRUE)>>
                         ELSE <<>>)
  /\ UNCHANGED <<configEntry, bundleFormat, sourcemaps, bundleOut, accessible, resolveCall,
                 resolveResult>>
  /\ pathUnchanged

\* Build.build(): the generator of config.format is handed the entry as configured
generateBundle ==
  /\ graphRecords /= <<>> /\ bundleOut.kind = "none"
  /\ bundleOut' = IF bundleFormat = "esm"
                    THEN generateESBundle(graphRecords, configEntry)
                    ELSE generateIIFEBundle(graphRecords, configEntry)
  /\ UNCHANGED <<configEntry, bundleFormat, sourcemaps, graphRecords, accessible, resolveCall,
                 resolveResult>>
  /\ pathUnchanged

NextEntryMap ==
  \/ \E others \in SUBSET {pathResolve(e) : e \in EntryPaths}, withExternal \in BOOLEAN :
        Cardinality(others) <= 1 /\ graphReturns(others, withExternal)
  \/ generateBundle

SpecEntryMap == InitEntryMap /\ [][NextEntryMap]_vars


\* ------------------------------------------- resolvePath (SpecResolve)
\* an absolute path as text: its segments, each a name followed by the
\* extensions appended to it, so that 'b' + '.js' and 'b.js' are one text
textOf(dir, name, ext) ==
  [i \in 1..Len(dir) |-> <<dir[i]>>] \o <<IF ext = "" THEN <<name>> ELSE <<name, ext>>>>

\* ext ? `${candidate}${ext}` : candidate
withExt(candidate, ext) ==
  IF ext = "" THEN candidate
  ELSE [candidate EXCEPT ![Len(candidate)] = Append(@, ext)]

extensions == <<"js", "jsx", "ts", "tsx", "json", "">>

\* [path.resolve(baseDir, modulePath), path.resolve(baseDir, `${modulePath}/index`)]
candidatesOf(baseDir, modulePath) ==
  LET c == textOf(resolveDir(baseDir, modulePath.dir), modulePath.name, modulePath.ext)
  IN <<c, Append(c, <<"index">>)>>

returned(fullPath) == [kind |-> "returned", path |-> {fullPath}, message |-> {}]

\* new Error(`Cannot resolve module '${modulePath}' from '${baseDir}'`)
threw(modulePath, baseDir) ==
  [kind |-> "threw", path |-> {},
   message |-> {[modulePath |-> modulePath, baseDir |-> baseDir]}]

RECURSIVE tryExtensionsFirst(_, _, _, _, _)
\* the loops nested the other way round: every candidate is tried with an
\* extension before the next extension is tried
tryExtensionsFirst(fs, candidates, c, e, failure) ==
  IF e > Len(extensions) THEN failure
  ELSE IF c > Len(candidates) THEN tryExtensionsFirst(fs, candidates, 1, e + 1, failure)
  ELSE LET fullPath == withExt(candidates[c], extensions[e])
       IN IF fullPath \in fs THEN returned(fullPath)
          ELSE tryExtensionsFirst(fs, candidates, c + 1, e, failure)

RECURSIVE tryCandidates(_, _, _, _, _)
\* for (const candidate of candidates) for (const ext of extensions):
\* the first full path fs.access accepts is returned
tryCandidates(fs, candidates, c, e, failure) ==
  IF c > Len(candidates) THEN failure
  ELSE IF e > Len(extensions) THEN tryCandidates(fs, candidates, c + 1, 1, failure)
  ELSE LET fullPath == withExt(candidates[c], extensions[e])
       IN IF fullPath \in fs THEN returned(fullPath)
          ELSE tryCandidates(fs, candidates, c, e + 1, failure)

\* resolvePath(baseDir, modulePath) over the paths fs.access accepts
resolveOnDisk(fs, baseDir, modulePath) ==
  tryCandidates(fs, candidatesOf(baseDir, modulePath), 1, 1, threw(modulePath, baseDir))

\* the calls made: './b', './b.js' and './sub/d' from src, '../b' from src/sub
ResolveCalls ==
  {[baseDir |-> <<"src">>, modulePath |-> Specifier("./", <<>>, "b", "")],
   [baseDir |-> <<"src">>, modulePath |-> Specifier("./", <<>>, "b", "js")],
   [baseDir |-> <<"src">>, modulePath |-> Specifier("./", <<"sub">>, "d", "")],
   [baseDir |-> <<"src", "sub">>, modulePath |-> Specifier("", <<"..">>, "b", "")]}

\* every full path a call can ask fs.access about
fullPathsOf(call) ==
  LET candidates == candidatesOf(call.baseDir, call.modulePath)
  IN {withExt(candidates[c], extensions[e]) : c \in 1..2, e \in 1..Len(extensions)}

\* a file system: a path below a directory exists only when the directory does
directoryExists(fs, call) ==
  LET candidates == candidatesOf(call.baseDir, call.modulePath)
  IN (\E e \in 1..Len(extensions) : withExt(candidates[2], extensions[e]) \in fs)
        => candidates[1] \in fs

InitResolve ==
  /\ cacheOn = TRUE
  /\ parallel = TRUE
  /\ watchMode = FALSE
  /\ InitWatchFields
  /\ impl = "core"
  /\ InitOptFields
  /\ InitMarkupFields
  /\ InitWatcherFields
  /\ InitPluginFields
  /\ InitModuleFields
  /\ InitStageFields
  /\ configEntry = [abs |-> TRUE, segs |-> <<>>]
  /\ bundleFormat = "iife"
  /\ sourcemaps = FALSE
  /\ graphRecords = <<>>
  /\ bundleOut = [kind |-> "none", map |-> {}]
  /\ \E call \in ResolveCalls :
       /\ resolveCall = {call}
       /\ accessible \in SUBSET fullPathsOf(call)
       /\ directoryExists(accessible, call)
  /\ resolveResult = [kind |-> "none", path |-> {}, message |-> {}]

\* processFile calls resolvePath for a dependency
callResolvePath(call) ==
  /\ call \in resolveCall /\ resolveResult.kind = "none"
  /\ resolveResult' = resolveOnDisk(accessible, call.baseDir, call.modulePath)
  /\ UNCHANGED <<configEntry, bundleFormat, sourcemaps, graphRecords, bundleOut, accessible,
                 resolveCall>>
  /\ pathUnchanged

NextResolve ==
  \E call \in ResolveCalls : callResolvePath(call)

SpecResolve == InitResolve /\ [][NextResolve]_vars


\* --------------------------------- the debounce timers (SpecDebounce)
\* the process runs a JoltBundler (index.js) or a Watcher (core/watch.js);
\* the two share no state
InitDebounce ==
  /\ cacheOn = TRUE
  /\ parallel \in BOOLEAN
  /\ watchMode \in BOOLEAN
  /\ InitWatchFields
  /\ impl = "core"
  /\ InitAuxFields
  /\ InitModuleFields
  /\ InitStageFields

NextDebounce ==
  \/ InitWatcherFields /\ Next
  \/ buildPc = "none" /\ NextWatcher

SpecDebounce == InitDebounce /\ [][NextDebounce]_vars


\* ------------------------------- stop() against the debounce (SpecShutdown)
\* core/Bundler.js in watch mode: file events arm the debounce timer, the
\* timer calls #processChanges, and stop() is called while the program goes on
InitShutdown ==
  /\ InitStop
  /\ impl = "core"

NextShutdown ==
  \/ openWatcher
  \/ userStop
  \/ stopWatcher
  \/ stopDispose
  \/ stopFinish
  \/ \E filePath \in Paths : handleChange(filePath)
  \/ \E id \in armed : timerFire(id)
  \/ \E fr \in passes, ok \in BOOLEAN : preHtmlSettle(fr, ok)
  \/ \E fr \in passes, s \in Stages, ok \in BOOLEAN : stageSettle(fr, s, ok)
  \/ \E s \in Stages : leakedSettle(s)

SpecShutdown == InitShutdown /\ [][NextShutdown]_vars


\* ----------------------------- the watched paths classified (SpecClassify)
\* a JoltBundler in watch mode after its first build: the watcher reports
\* changes of the files it subscribes to, and the batches are drained
InitClassify ==
  /\ cacheOn = TRUE
  /\ parallel \in BOOLEAN
  /\ watchMode = TRUE
  /\ impl = "core"
  /\ InitAuxFields
  /\ InitLifecycleFields
  /\ alive = TRUE
  /\ watcher = TRUE
  /\ buildPc = "returned"
  /\ seqIdx = 0
  /\ activeBuilds = {}
  /\ pendingQueue = <<>>
  /\ resubmitted = {}
  /\ pendingChanges = {}
  /\ debounceTimer = 0
  /\ armed = {}
  /\ eventCount = 0
  /\ activeRebuild = FALSE
  /\ passes = {}
  /\ leaked = [s \in Stages |-> 0]
  /\ lateAdds = {}
  /\ InitModuleFields
  /\ InitStageFields

NextClassify ==
  \/ \E filePath \in watchPatterns : handleChange(filePath)
  \/ \E id \in armed : timerFire(id)
  \/ \E fr \in passes, ok \in BOOLEAN : preHtmlSettle(fr, ok)
  \/ \E fr \in passes, s \in Stages, ok \in BOOLEAN : stageSettle(fr, s, ok)
  \/ \E s \in Stages : leakedSettle(s)

SpecClassify == InitClassify /\ [][NextClassify]_vars


\* ------------------------------ entries built concurrently (SpecEntries)
\* a Build whose pattern matches several entries: build() maps every entry to
\* its own buildDependencyGraph over the one hash cache and the one graph.
\* The traversal of the entry a.js is followed step by step; of every other
\* entry the processFile call for the entry file itself is. Every file
\* transpiles and resolves, and files are edited between builds only.
otherEntry(entryFile) ==
  /\ bpc \in {"traverse", "await", "bundle"}
  /\ processFile(2, entryFile)
  /\ UNCHANGED travVars

otherEntryFinish(c) ==
  /\ c.id = 2
  /\ finishProcessFile(c, "none")
  /\ UNCHANGED travVars

NextEntries ==
  \/ \E m \in GraphModules, content \in 1..MaxContent :
        bpc \in {"idle", "done"} /\ calls = {} /\ editModule(m, content)
  \/ calls = {} /\ startBuild
  \/ traverseStep
  \/ \E c \in calls : c.id = 1 /\ traverseFinish(c, "none")
  \/ traverseReturn
  \/ \E ok \in BOOLEAN : writeBundle(ok)
  \/ \E entryFile \in GraphModules : otherEntry(entryFile)
  \/ \E c \in calls : otherEntryFinish(c)

SpecEntries == InitGraph /\ [][NextEntries]_vars


\* ------------------------------- @import rules in a cycle (SpecCycle)
\* #resolveImports over style files whose @import rules may name each other:
\* every file can be read, so each rule leads to a nested call for its target.
\* The nested calls of one call are followed one after the other; a call returns
\* when all of them have
InitCycle ==
  /\ cacheOn = TRUE
  /\ parallel = TRUE
  /\ watchMode = FALSE
  /\ InitWatchFields
  /\ impl = "core"
  /\ InitOptFields
  /\ InitMarkupFields
  /\ InitWatcherFields
  /\ InitPathFields
  /\ InitModuleFields
  /\ InitStageFields
  /\ assetsCache = {}
  /\ sassCache = [f \in CssFiles |-> {}]
  /\ bundleCache = {}
  /\ cssChunks = [f \in CssFiles |-> {}]
  /\ pluginPc = "idle"
  /\ styleImports \in [ImportFiles -> SUBSET ImportFiles]
  /\ importStack = <<>>
  /\ importPc = "idle"

pluginUnchanged ==
  UNCHANGED <<cacheOn, watchVars, moduleVars, lifecycleVars, optVars, markupVars, watcherVars,
              pathVars, cacheScripts, cacheStyles, cacheAssets, cacheHtml, run, hits,
              unchangedRun, prevOut, dirty, styleSrc, esbuild, ranBefore>>

\* a resolveImports call for the content of file: its imports are matched;
\* odd tells nesting levels of the same file apart
ImportCall(file, imports, odd) == [file |-> file, todo |-> imports[file], odd |-> odd]

\* the chain of nested calls with one more call; of a chain of MaxDepth calls
\* the outermost is no longer kept
pushCall(chain, call) ==
  IF Len(chain) < MaxDepth THEN Append(chain, call) ELSE Append(Tail(chain), call)

\* #processSingleCssFile calls resolveImports for main.css
callResolveImports ==
  /\ importPc = "idle"
  /\ importPc' = "running"
  /\ importStack' = <<ImportCall("main", styleImports, TRUE)>>
  /\ UNCHANGED <<assetsCache, sassCache, bundleCache, cssChunks, pluginPc, styleImports, mtime,
                 outDir>>
  /\ pluginUnchanged

\* the innermost call reads the target of one of its @import rules and calls
\* resolveImports for what it read
importDescend(target) ==
  /\ importPc = "running"
  /\ LET n == Len(importStack)
         top == importStack[n]
     IN /\ target \in top.todo
        /\ importStack' = pushCall([importStack EXCEPT ![n].todo = @ \ {target}],
                                   ImportCall(target, styleImports, ~top.odd))
  /\ UNCHANGED <<assetsCache, sassCache, bundleCache, cssChunks, pluginPc, styleImports, importPc,
                 mtime, outDir>>
  /\ pluginUnchanged

\* the innermost call has all its imports resolved: Promise.all resolves and
\* the call returns the content with the rules replaced
importReturn ==
  /\ importPc = "running"
  /\ LET n == Len(importStack)
     IN /\ importStack[n].todo = {}
        /\ importStack' = SubSeq(importStack, 1, n - 1)
        /\ importPc' = IF n = 1 THEN "returned" ELSE "running"
  /\ UNCHANGED <<assetsCache, sassCache, bundleCache, cssChunks, pluginPc, styleImports, mtime,
                 outDir>>
  /\ pluginUnchanged

NextCycle ==
  \/ callResolveImports
  \/ \E target \in ImportFiles : importDescend(target)
  \/ importReturn

\* the event loop runs what is ready
SpecCycle == InitCycle /\ [][NextCycle]_vars /\ WF_vars(NextCycle)


\* ------------------------------- the plug-ins of a Build (SpecPlugins)
\* Bundler.run() build after build over the configuration of jolt.config.js:
\* every run creates a Build over the same cssPlug and htmlPlug instances,
\* writes the bundle of src/main.js and calls the afterBuild hooks in order.
\* Source files are saved between the runs.
InitPlugins ==
  /\ cacheOn = TRUE
  /\ parallel = TRUE
  /\ watchMode = FALSE
  /\ InitWatchFields
  /\ impl = "core"
  /\ InitAuxFields
  /\ InitModuleFields
  /\ InitStageFields

\* generateHashedFileName: name.hash.ext, the hash taken from the content
generateHashedFileName(base, content, ext) == OutName(base, {digest8(content)}, ext)

\* cleanOldHashes(dir, basename, ext): every file basename.<hex>ext is unlinked
cleanOldHashes(out, basename, ext) ==
  {f \in out : ~(f.name.base = basename /\ f.name.ext = ext /\ f.name.hash /= {})}

\* htmlPlug.fetchAssets: the base names of the script and style files of dist
fetchAssets(out) == [js |-> jsFilesOf(out), css |-> cssFilesOf(out)]

\* sassCache.set(filePath, result) when the path has no entry
sassCacheSet(cached, result) == IF cached = {} THEN result ELSE cached

\* processCSSWithCache: the entry of the path when there is one, else what
\* processCSS makes of the content the file has
processCSSWithCache(cached, content) == IF cached /= {} THEN cached ELSE {content}

\* a source file is saved while no build is running
saveSource(f) ==
  /\ pluginPc = "idle"
  /\ editsOf(SrcFiles, mtime) < MaxEdits
  /\ mtime' = [mtime EXCEPT ![f] = @ + 1]
  /\ UNCHANGED <<outDir, pluginVars>>
  /\ pluginUnchanged

\* Build.build() up to the hooks: writeOutput unlinks the bundles written
\* before and writes bundle.<hash>.js
writeOutput ==
  /\ pluginPc = "idle"
  /\ pluginPc' = "written"
  /\ outDir' = writeFile(cleanOldHashes(outDir, "bundle", "js"),
                         generateHashedFileName("bundle", contentOf({entry}, mtime), "js"),
                         OutData(mtime[entry], {}, {}))
  /\ UNCHANGED <<mtime, assetsCache, sassCache, bundleCache, cssChunks, styleImports, importStack,
                 importPc>>
  /\ pluginUnchanged

\* cssPlug.afterBuild: the chunks of the style files are combined and hashed;
\* a hash equal to cache.hash ends the hook, else the bundles written before
\* are unlinked and bundle.<hash>.css is written
cssAfterBuild ==
  /\ pluginPc = "written"
  /\ pluginPc' = "css"
  /\ LET chunks == [f \in CssFiles |-> processCSSWithCache(sassCache[f], mtime[f])]
         combinedCSS == UNION {{<<f, v>> : v \in chunks[f]} : f \in CssFiles}
         contentHash == digest8(combinedCSS)
         made == CHOOSE v \in UNION {chunks[f] : f \in CssFiles} :
                    \A w \in UNION {chunks[f] : f \in CssFiles} : w <= v
     IN /\ sassCache' = [f \in CssFiles |-> sassCacheSet(sassCache[f], chunks[f])]
        /\ cssChunks' = chunks
        /\ IF bundleCache = {contentHash}
             THEN UNCHANGED <<outDir, bundleCache>>
             ELSE /\ outDir' = writeFile(cleanOldHashes(outDir, "bundle", "css"),
                                         OutName("bundle", {contentHash}, "css"),
                                         OutData(made, {}, {}))
                  /\ bundleCache' = {contentHash}
  /\ UNCHANGED <<mtime, assetsCache, styleImports, importStack, importPc>>
  /\ pluginUnchanged

\* htmlPlug.afterBuild: the asset lists are fetched when assetsCache is null,
\* then every markup file is written with the tags of the lists injected
htmlAfterBuild ==
  /\ pluginPc = "css"
  /\ pluginPc' = "idle"
  /\ LET file == CHOOSE f \in HtmlFiles : TRUE
         assets == IF assetsCache = {} THEN {fetchAssets(outDir)} ELSE assetsCache
         lists == CHOOSE a \in assets : TRUE
     IN /\ assetsCache' = assets
        /\ outDir' = writeFile(outDir, OutName(SrcBase[file], {}, "html"),
                               OutData(mtime[file], lists.js, lists.css))
  /\ UNCHANGED <<mtime, sassCache, bundleCache, cssChunks, styleImports, importStack, importPc>>
  /\ pluginUnchanged

NextPlugins ==
  \/ \E f \in Watched : saveSource(f)
  \/ writeOutput
  \/ cssAfterBuild
  \/ htmlAfterBuild

SpecPlugins == InitPlugins /\ [][NextPlugins]_vars


\* ------------------------------------------------------------ properties
\* C1: at most one rebuild pass (a processChanges invocation past the
\* activeRebuild guard that has not reached its finally block) is in flight
C1_AtMostOnePassInFlight == Cardinality(passes) <= 1

\* a pass is in flight, a later event is pending, and the timer that event
\* armed has fired and was turned away by the guard
C1_Witness ==
  /\ passes /= {}
  /\ pendingChanges /= {}
  /\ armed = {}
  /\ activeRebuild

\* C2: whenever no pass is in flight, no path that arrived during a pass is
\* still pending: the follow-up pass started when the in-flight pass finished
\* has drained it and the loop is idle again
C2_LateChangesDrained == (passes = {}) => lateAdds = {}

\* C3: a pass started by the debounce timer from the idle state snapshots
\* every pending path, and by the time it ends it has invoked the union of
\* the stages implied by the paths of its snapshot
C3_BurstPassRunsUnion ==
  [][ /\ \A g \in passes' :
           (g.fromIdle /\ \A f \in passes : f.id /= g.id)
             => (g.changed = pendingChanges /\ pendingChanges' = {})
      /\ \A f \in passes :
           (f.fromIdle /\ \A g \in passes' : g.id /= f.id)
             => f.invoked = UNION {tasksFor({p}) : p \in f.changed} ]_vars

\* C4: activeRebuild is set only while a pass is executing: a pass that ended,
\* whatever stage threw, has reset it, so the loop is never stuck rebuilding
C4_RebuildFlagReset == activeRebuild => passes /= {}

\* C5: no stage has two executions in flight at the same time
C5_StageExclusive == \A s \in Stages : InFlight(s) <= 1

\* C6: a queueTask invocation for a task that is running is recorded in the
\* pending queue until the task is run again
C6_ResubmissionQueued ==
  \A t \in resubmitted : \E i \in 1..Len(pendingQueue) : pendingQueue[i] = t

\* the file content a ModuleRecord was produced from
sourceOf(node) == node.code[2]

\* C7: a ModuleRecord returned as a cache hit was produced from the content
\* the file has at that call (the content whose hash is recorded); a record
\* built from older content is never returned once the file has changed
C7_HitIsCurrent ==
  lastCall.kind = "hit" =>
    \A n \in lastCall.node : hashFile(sourceOf(n)) = lastCall.fileHash

\* C8: with caching enabled, a processFile call for a path that has a record
\* in the graph and whose content hash equals the recorded one returns that
\* record and invokes neither readFile, the transpiler, parseImports nor resolvePath
C8_HitSkipsCollaborators ==
  (/\ cacheOn
   /\ lastCall.kind \in {"hit", "miss", "failed"}
   /\ lastCall.prior /= {}
   /\ lastCall.cached = {lastCall.fileHash})
  => (/\ lastCall.kind = "hit"
      /\ lastCall.node = lastCall.prior
      /\ lastCall.invoked = {})

\* a call that found its path in the graph with the recorded hash unchanged,
\* after the file had been edited and processed again
C8_Witness ==
  /\ cacheOn
  /\ lastCall.kind = "hit"
  /\ lastCall.prior /= {}
  /\ lastCall.cached = {lastCall.fileHash}
  /\ lastCall.fileHash = hashFile(2)

\* C9: with caching enabled, a build or rebuild pass run with no source file changed since the
\* previous run takes the hit path in every asset class and leaves the output
\* directory as the previous run left it
C9_UnchangedRunAllHits ==
  (cacheOn /\ run.kind = "none" /\ unchangedRun) =>
     /\ \A c \in Classes : hits[c] /= "miss"
     /\ outDir = prevOut

\* C10: with config.cache false no lookup decides a skip: needsRebuild answers
\* true for every path processFile asks about, processFile never returns a
\* cached record, and no asset class takes the hit path
C10_CacheOffNeverHits ==
  ~cacheOn =>
     /\ \A c \in Classes : hits[c] /= "hit"
     /\ lastCall.kind /= "hit"
     /\ lastCall.kind \in {"miss", "failed"} => lastCall.needs

\* a second build with no source changed ended: the caches, which cleanOutput
\* leaves alone when caching is off, held the current fingerprints, and the
\* scripts, styles, assets and markup stages still took the miss path
C10_Witness ==
  /\ ~cacheOn /\ unchangedRun /\ run.kind = "none"
  /\ \A c \in {"scripts", "styles", "assets", "html"} : hits[c] = "miss"
  /\ cacheHitUnconditional(cacheOn, cacheStyles, {SrcBase[f] : f \in CssFiles}, latestMtime(mtime))
  /\ \A f \in AssetFiles : cacheHitUnconditional(cacheOn, cacheAssets, SrcBase[f], mtime[f])

\* C11: once a run of the style stage has completed, exactly one
\* styles-<hash>.css file exists in the output directory
C11_OneStyleBundle ==
  hits["styles"] /= "none" => Cardinality(styleBundles(outDir)) = 1

\* the files written for source asset f
outputsOf(f) == {o \in outDir : o.name.base = SrcBase[f] /\ o.name.ext = SrcExt[f]}

\* C12: after a pass of the asset stage and before any further edit, the cache entry of a content-hashed
\* asset holds the path of the file just written and no earlier hashed file of
\* that asset is left
C12_OneHashedOutput ==
  (hits["assets"] /= "none" /\ ~dirty) =>
    \A f \in AssetFiles :
      /\ \A e \in cacheAssets :
           e.key = SrcBase[f] => e.outputPath = OutName(SrcBase[f], {digest8(contentOf({f}, mtime))}, SrcExt[f])
      /\ Cardinality(outputsOf(f)) <= 1

\* C13: within one traversal each path is processed at most once, and every
\* traversal that was started ends
C13_TraversalTerminates ==
  /\ [](\A m \in GraphModules : processed[m] <= 1)
  /\ (bpc \in {"traverse", "await"}) ~> (bpc \in {"bundle", "done"})

\* a traversal over the cycle a -> b -> c -> a, with b importing itself,
\* returned after processing each of the three files
C13_Witness ==
  /\ bpc = "bundle" /\ stable
  /\ disk["/src/a.js"] = 2 /\ disk["/src/b.js"] = 2 /\ disk["/src/c.js"] = 1
  /\ \A m \in {"/src/a.js", "/src/b.js", "/src/c.js"} : processed[m] = 1

RECURSIVE reachFrom(_, _)
\* the modules reachable from the paths of frontier through the resolved local
\* imports of the files as they are on disk
reachFrom(frontier, seen) ==
  IF frontier \subseteq seen THEN seen
  ELSE LET m == CHOOSE x \in frontier \ seen : TRUE
       IN reachFrom((frontier \ {m}) \cup importsOf(m, disk[m]), seen \cup {m})

reachable == reachFrom({graphEntry}, {})

\* C14: a traversal that returns (no file edited meanwhile) returns exactly one
\* record for each module reachable from the entry, and the record of a module
\* lists every resolved local import of that module
C14_GraphComplete ==
  (bpc = "bundle" /\ stable) =>
     /\ {pair[1] : pair \in modulesOut} = reachable
     /\ \A pair \in modulesOut :
          /\ Cardinality(pair[2]) = 1
          /\ \A n \in pair[2] : n.path = pair[1] /\ n.dependencies = importsOf(pair[1], disk[pair[1]])

\* C15: after a completed traversal every visited path and every path in a
\* returned record's dependencies is a key of the graph, external paths
\* included, and the returned collection has no undefined entry
C15_GraphClosed ==
  bpc = "bundle" =>
     /\ \A pair \in modulesOut : pair[2] /= {}
     /\ \A f \in visited : graph[f] /= {}
     /\ \A f \in visited : \A d \in dependenciesOf(graph[f]) : graph[d] /= {}

\* C16: when a module reachable from the entry does not transpile (and no file
\* is edited during the build), Build.build() returns success: false and
\* writes no bundle
C16_BrokenModuleFailsBuild ==
  (bpc = "done" /\ stable /\ \E m \in reachable : disk[m] = 0) =>
     (outcome = "failure" /\ ~bundleWritten)

\* C17: executing the emitted bundle calls each module's factory at most once,
\* import cycles included, no factory runs before every module is registered,
\* and once the bundle has required its entry the entry factory has run
\* exactly once
C17_FactoriesRunOnce ==
  /\ \A f \in BundleFiles : factoryRuns[f] <= 1
  /\ (\E f \in BundleFiles : factoryRuns[f] > 0) =>
        \A f \in bundled : \E q \in modules : q[2] = f
  /\ rpc \in {"run", "done", "threw"} => factoryRuns[entryPath] = 1

\* the bundle of a.js <-> b.js (a cycle) with a self-import in b.js has run
\* to its end
C17_Witness ==
  /\ rpc = "done"
  /\ modCode[fileA] = {Specifier("./", <<>>, "b", "")}
  /\ modCode[fileB] = {Specifier("./", <<>>, "a", ""), Specifier("./", <<>>, "b", "")}
  /\ factoryRuns[fileA] = 1
  /\ factoryRuns[fileB] = 1

\* C18: once the bundle's modules are registered, the identifier a module's
\* code passes to require for a dependency is a registry key that maps to
\* that dependency, and require never throws 'Module not found'
C18_RequireFindsDependency ==
  /\ rpc /= "threw"
  /\ rpc \in {"run", "done"} =>
        \A m \in bundled : \A dep \in modCode[m] :
           modulesGet(dep) /= {} /\ modulesGet(dep) = resolvePath(dirname(m), dep)

\* C19: when stop() has returned, the watcher and the esbuild context are
\* closed, every stage started before the stop() call holds an aborted signal,
\* and the controller the bundler hands out next, like the signal of every
\* stage started since, is not aborted
C19_StopReleasesAll ==
  stopPc = "returned" =>
     /\ ~watcherOpen
     /\ ~contextOpen
     /\ \A s \in AbortStages : stagePhase[s] = "before" => stageSignal[s] \in aborted
     /\ abortController \notin aborted
     /\ \A s \in AbortStages : stagePhase[s] = "current" => stageSignal[s] \notin aborted

\* C20: in core/Bundler.js a stage whose cancelled operation raised an
\* AbortError does not reject, and while no stage raised another error nothing
\* is logged at error level and build() does not fail
C20_AbortSwallowed ==
  impl = "core" =>
     /\ \A s \in AbortStages : raised[s] = "AbortError" => stageAt[s] /= "rejected"
     /\ (\A s \in AbortStages : raised[s] /= "Error") => (~errorLogged /\ alive)

\* C21: a failing optional collaborator never fails the stage that owns the
\* file: no file is left failed, no stage rejects, and a file left with its
\* original bytes or text comes with a logged warning
C21_OptionalFailureFallsBack ==
  /\ \A s \in OptStages : optStage[s] /= "rejected"
  /\ \A f \in OptFiles : optOut[f] /= "failed"
  /\ \A f \in OptFiles : optOut[f] = "original" => "warn" \in logged

isText(part) == part.kind = "text"

isOwnText(part) == part.name = "main"

\* C22: once the imports of a style file are resolved, an import whose target
\* could not be read has left no text and a warning was logged, the file's own
\* texts are kept in order, and the stage has gone on to the preprocessor
\* (it rejects only with an error the preprocessor raised)
C22_MissingImportIsEmptyText ==
  cssPc /= "idle" =>
     /\ unreadableIn(cssParts, cssReadable) => "warn" \in logged
     /\ SelectSeq(cssResult, isOwnText) = SelectSeq(cssParts, isText)
     /\ \A i \in DOMAIN cssResult :
          isText(cssResult[i]) /\ cssResult[i].name \in cssReadable \cup {"main"}
     /\ cssPc = "rejected" => "error" \in logged

\* main.css is '@import "p"; text', p.css cannot be read, and the bundle
\* was written from the text alone
C22_Witness ==
  /\ cssPc = "written"
  /\ cssParts = <<ImportOf("p"), TextOf("main")>>
  /\ cssReadable = {"q"}
  /\ cssResult = <<TextOf("main")>>
  /\ "warn" \in logged

\* the interest groups of a changed file: a file of the static or public
\* directory belongs to static-copy; any other file is classified by its
\* extension, and a script or style file also implicates the markup that
\* embeds the name of its output
interestGroups(f) ==
  IF Dir[f] \in {staticDir, "src/public"} THEN {"static"}
  ELSE CASE Ext[f] = "html" -> {"html"}
         [] Ext[f] \in {"js", "jsx", "ts", "tsx"} -> {"scripts", "html"}
         [] Ext[f] \in {"css", "scss", "sass", "less"} -> {"styles", "html"}
         [] OTHER -> {"assets"}

\* C23: every stage a rebuild pass has invoked has a file of its interest
\* group in the batch the pass drained
C23_OnlyInterestedStagesRun ==
  \A fr \in passes : fr.invoked \subseteq UNION {interestGroups(f) : f \in fr.changed}

\* C24: the markup stage of a rebuild pass whose drained batch contains a
\* script, markup or style file serves no markup file from the cache
C24_MarkupNotServedFromCache ==
  \A changedFiles \in served :
     ~\E f \in changedFiles : Ext[f] \in {"js", "html", "css"}

\* C25: while the markup stage of a rebuild pass is in flight nothing but
\* that stage writes the markup cache: not the build-end callback of the
\* scripts stage, and not the styles stage
C25_MarkupCacheSingleWriter ==
  mutators = {}

\* C26: in the Watcher class a file event handed over while a build is in
\* flight is not discarded: once the build has completed a rebuild for it is
\* scheduled or running
C26_EventDuringBuildRebuilt ==
  (~isBuilding /\ scheduled = {}) => owed = {}

\* C27: the bundle either generator returns carries the source map of the
\* entry module's record whenever that record has one, for an entry
\* configured as a relative path and for one configured as an absolute path
C27_EntryMapReturned ==
  bundleOut.kind /= "none" =>
    \A i \in 1..Len(graphRecords) :
       (graphRecords[i].path = pathResolve(configEntry) /\ graphRecords[i].map /= {})
          => bundleOut.map = graphRecords[i].map

\* the candidates in the order the specification fixes: the specifier with
\* each listed extension and then without one, then specifier/index likewise
fixedOrder(call) ==
  LET own == textOf(resolveDir(call.baseDir, call.modulePath.dir),
                    call.modulePath.name, call.modulePath.ext)
      index == own \o <<<<"index">>>>
      listed == <<"js", "jsx", "ts", "tsx", "json">>
  IN [i \in 1..5 |-> withExt(own, listed[i])] \o <<own>> \o
     [i \in 1..5 |-> withExt(index, listed[i])] \o <<index>>

\* C28: resolvePath returns the first existing candidate of the fixed order,
\* and throws an error naming the specifier and the base directory exactly
\* when no candidate exists
C28_FirstExistingCandidate ==
  resolveResult.kind /= "none" =>
    \A call \in resolveCall :
      LET order == fixedOrder(call)
          existing == {i \in 1..Len(order) : order[i] \in accessible}
      IN IF existing = {}
           THEN /\ resolveResult.kind = "threw"
                /\ resolveResult.message = {[modulePath |-> call.modulePath,
                                             baseDir |-> call.baseDir]}
           ELSE /\ resolveResult.kind = "returned"
                /\ resolveResult.path = {order[CHOOSE i \in existing : \A j \in existing : i <= j]}

\* a call for which the specifier names an existing path as it stands, no
\* listed extension fits it and an index.js exists below it: the path itself
\* is returned
C28_Witness ==
  /\ resolveResult.kind = "returned"
  /\ \E call \in resolveCall :
       LET order == fixedOrder(call)
       IN /\ \A i \in 1..5 : order[i] \notin accessible
          /\ order[6] \in accessible /\ order[7] \in accessible
          /\ resolveResult.path = {order[6]}

\* C29: with config.parallel false a stage is started only as the first of
\* the given order when none has run, or as the successor of the stage that
\* has just completed successfully; a step in which a stage fails starts no
\* stage and is the failure of build()
C29_SequentialPipeline ==
  [][~parallel =>
       /\ \A t \in activeBuilds' \ activeBuilds :
            /\ alive'
            /\ \/ buildPc = "clean" /\ activeBuilds = {} /\ t = Task(BuildOrder[1], 1)
               \/ \E k \in 1..(Len(BuildOrder) - 1) :
                     /\ activeBuilds = {Task(BuildOrder[k], 1)}
                     /\ t = Task(BuildOrder[k + 1], 1)
       /\ (buildPc = "pipeline" /\ ~alive') => (activeBuilds' = {} /\ buildPc' = "returned")]_vars

\* the last stage of the order is running alone after the four before it
\* completed one by one
C29_Witness ==
  /\ ~parallel /\ alive /\ buildPc = "pipeline"
  /\ seqIdx = Len(BuildOrder)
  /\ activeBuilds = {Task(BuildOrder[Len(BuildOrder)], 1)}

C31_DirectoryResolvesToIndex ==
  resolveResult.kind /= "none" =>
    \A call \in resolveCall :
      LET order == fixedOrder(call)
          indexFiles == {i \in 7..11 : order[i] \in accessible}
      IN (/\ \A i \in 1..5 : order[i] \notin accessible
          /\ order[6] \in accessible
          /\ indexFiles /= {})
         => resolveResult.path = {order[CHOOSE i \in indexFiles : \A j \in indexFiles : i <= j]}

\* C32: once stop() has returned no rebuild pass starts: no debounce timer
\* armed before stop() calls #processChanges into a new pass, and no finished
\* pass starts another one
C32_NoPassAfterStop ==
  [][(stopPc = "returned" /\ stops > 0) =>
       {fr.id : fr \in passes'} \subseteq {fr.id : fr \in passes}]_vars

\* C33: when a build or a rebuild pass that produced the script or the style
\* bundle completes, every markup file of the output directory references
\* exactly the script and style files the output directory holds then
C33_MarkupReferencesCurrentBundles ==
  [][(/\ run.kind /= "none"
      /\ run'.kind = "none"
      /\ alive'
      /\ ~dirty'
      /\ (hits'["scripts"] = "miss" \/ hits'["styles"] = "miss"))
     => \A f \in outDir' :
          f.name.ext = "html" =>
            /\ f.data.js = jsFilesOf(outDir')
            /\ f.data.css = cssFilesOf(outDir')]_vars

\* C34: a drained batch that holds one path the watcher subscribes to invokes
\* at least one stage: the pass it starts has called a stage function
C34_WatchedChangeRunsStage ==
  [][(/\ ~activeRebuild
      /\ Cardinality(pendingChanges) = 1
      /\ pendingChanges \subseteq watchPatterns
      /\ pendingChanges' = {})
     => \E fr \in passes' : fr.changed = pendingChanges /\ fr.invoked /= {}]_vars

\* C35: the module collection buildDependencyGraph returns for an entry
\* holds, for every module file of it, a record produced from the content the
\* file has, whatever the other entries' processFile calls did in between
C35_EntryRecordsCurrent ==
  (bpc = "bundle" /\ stable) =>
     \A pair \in modulesOut :
        ~isExternalDependency(pair[1]) =>
           /\ pair[2] /= {}
           /\ \A n \in pair[2] : sourceOf(n) = disk[pair[1]]

\* C36: resolveImports terminates whatever the @import rules of the style
\* files name, cycles and a file importing itself included: the outermost call returns
C36_ResolveImportsTerminates == <>(importPc = "returned")

\* C37: after every build the script and style tags htmlPlug injected into a
\* markup file name files the output directory holds: the asset lists are not
\* those of an earlier build
C37_InjectedTagsExist ==
  pluginPc = "idle" =>
     \A f \in outDir :
        f.name.ext = "html" =>
           /\ f.data.js \subseteq jsFilesOf(outDir)
           /\ f.data.css \subseteq cssFilesOf(outDir)

\* C38: the chunk cssPlug.afterBuild uses for a style file is compiled from
\* the content the file has: the compile cache returns nothing made from
\* earlier content
C38_ChunkFromCurrentContent ==
  pluginPc = "css" => \A f \in CssFiles : cssChunks[f] = {mtime[f]}

====
